---- MODULE Spec2Model ----
(***************************************************************************)
(* A model of the UpdateCheckApi: UpdateCheck::CheckForUpdates and the     *)
(* functions it calls (update_check_api.cpp, the OS utilities and the      *)
(* rtda download helper).                                                  *)
(*                                                                         *)
(* Strings the code scans (URLs, file names, version strings) are          *)
(* sequences of one-character strings; strings the code only compares or   *)
(* copies are TLA+ strings.  error_message is the sequence of the pieces   *)
(* appended to it, a constant being named by its identifier in             *)
(* update_check_api_strings.h.                                             *)
(***************************************************************************)
EXTENDS Integers, Sequences, FiniteSets, TLC

VARIABLES
    platform,        \* the TargetPlatform the build selects in FilterToCurrentPlatform
    ndebug,          \* TRUE when the build compiles assert() out
    remote,          \* what the network serves: [release, manifest]
    files,           \* the files on disk, path -> content
    temp_dir,        \* TRUE when the temp directory exists and is writable
    pc,              \* position of the running CheckForUpdates call
    call,            \* the arguments and locals of the running call
    update_info,     \* the caller's UpdateInfo
    error_message,   \* the caller's error_message
    ret,             \* what the last call returned
    log,             \* the steps the running (or last) call has taken
    arg,             \* input of a function applied on its own
    res,             \* result of a function applied on its own
    qt,              \* a ThreadController, its worker thread and the application
    checks,          \* the CheckForUpdates calls that run at the same time
    proc             \* an ExecAndGrabOutput call and the process it has launched

vars == <<platform, ndebug, remote, files, temp_dir, pc, call, update_info,
          error_message, ret, log, arg, res, qt, checks, proc>>

\* ------------------------------------------------------------------ bounds

MaxVer == 2
MaxReleases == 3
MaxPackages == 3

\* --------------------------------------------------------------- VersionInfo

kNewer == 1
kOlder == 0 - 1
kEqual == 0

VersionInfo(a, b, c, d) == [major |-> a, minor |-> b, patch |-> c, build |-> d]

Versions == { VersionInfo(a, b, c, d) : a \in 0..MaxVer, b \in 0..MaxVer,
                                        c \in 0..MaxVer, d \in 0..MaxVer }

\* A Compare that forgets the build component.
CompareNoBuild(this, other_version) ==
    IF this.major > other_version.major THEN kNewer
    ELSE IF this.major < other_version.major THEN kOlder
    ELSE IF this.minor > other_version.minor THEN kNewer
    ELSE IF this.minor < other_version.minor THEN kOlder
    ELSE IF this.patch > other_version.patch THEN kNewer
    ELSE IF this.patch < other_version.patch THEN kOlder
    ELSE kEqual

\* VersionInfo::Compare
Compare(this, other_version) ==
    IF this.major > other_version.major THEN kNewer
    ELSE IF this.major < other_version.major THEN kOlder
    ELSE IF this.minor > other_version.minor THEN kNewer
    ELSE IF this.minor < other_version.minor THEN kOlder
    ELSE IF this.patch > other_version.patch THEN kNewer
    ELSE IF this.patch < other_version.patch THEN kOlder
    ELSE IF this.build > other_version.build THEN kNewer
    ELSE IF this.build < other_version.build THEN kOlder
    ELSE kEqual

\* ----------------------------------------------------------- the data model

TargetPlatforms == {"kUnknown", "kWindows", "kUbuntu", "kRhel", "kDarwin"}
PackageTypes == {"kUnknown", "kZip", "kMsi", "kTar", "kRpm", "kDebian"}
ReleaseTypes == {"kUnknown", "kGeneralAvailability", "kBeta", "kAlpha", "kPatch",
                 "kDevelopment"}

\* UpdateCheck::TargetPlatformToString
TargetPlatformToString(target_platform) ==
    CASE target_platform = "kUnknown" -> "Unknown"
      [] target_platform = "kWindows" -> "Windows"
      [] target_platform = "kUbuntu" -> "Ubuntu"
      [] target_platform = "kRhel" -> "RHEL"
      [] target_platform = "kDarwin" -> "Darwin"
      [] OTHER -> "undefined"

\* UpdateCheck::PackageTypeToString
PackageTypeToString(package_type) ==
    CASE package_type = "kUnknown" -> "Unknown"
      [] package_type = "kZip" -> "ZIP"
      [] package_type = "kMsi" -> "MSI"
      [] package_type = "kTar" -> "TAR"
      [] package_type = "kRpm" -> "RPM"
      [] package_type = "kDebian" -> "Debian"
      [] OTHER -> "undefined"

\* UpdateCheck::ReleaseTypeToString
ReleaseTypeToString(release_type) ==
    CASE release_type = "kUnknown" -> "Unknown"
      [] release_type = "kGeneralAvailability" -> "GA"
      [] release_type = "kBeta" -> "Beta"
      [] release_type = "kAlpha" -> "Alpha"
      [] release_type = "kPatch" -> "Patch"
      [] release_type = "kDevelopment" -> "Development"
      [] OTHER -> "undefined"

\* struct DownloadLink; a default-constructed package_name is the empty string.
DownloadLink(url, package_type, package_name) ==
    [url |-> url, package_type |-> package_type, package_name |-> package_name]

\* struct InfoPageLink
InfoPageLink(url, page_description) == [url |-> url, page_description |-> page_description]

\* struct ReleaseInfo
ReleaseInfo(version, date, title, target_platforms, type, tags, download_links, info_links) ==
    [version |-> version, date |-> date, title |-> title,
     target_platforms |-> target_platforms, type |-> type, tags |-> tags,
     download_links |-> download_links, info_links |-> info_links]

\* struct UpdateInfo
UpdateInfo(is_update_available, releases) ==
    [is_update_available |-> is_update_available, releases |-> releases]

\* struct UpdatePackage_1_5
UpdatePackage_1_5(url, package_type, release_type, target_platforms) ==
    [url |-> url, package_type |-> package_type, release_type |-> release_type,
     target_platforms |-> target_platforms]

\* struct UpdateInfo_1_5 (is_update_available is never read)
UpdateInfo_1_5(release_version, release_date, release_description, packages, info_links) ==
    [release_version |-> release_version, release_date |-> release_date,
     release_description |-> release_description,
     available_packages |-> packages, info_links |-> info_links]

\* ------------------------------------------------- FilterToCurrentPlatform

\* std::any_of over target_platforms, looking only at the first platform.
IsForPlatformFirstOnly(release, current_platform) ==
    /\ Len(release.target_platforms) > 0
    /\ release.target_platforms[1] = current_platform

\* The std::any_of of the lambda handed to std::remove_if.
IsForPlatform(release, current_platform) ==
    \E i \in 1..Len(release.target_platforms) :
        release.target_platforms[i] = current_platform

\* std::remove_if followed by erase: the elements for which the predicate is
\* false are moved forward one by one, in the order they are met.
RECURSIVE RemoveOtherPlatforms(_, _, _, _)
RemoveOtherPlatforms(releases, current_platform, i, kept) ==
    IF i > Len(releases) THEN kept
    ELSE RemoveOtherPlatforms(releases, current_platform, i + 1,
            IF IsForPlatform(releases[i], current_platform)
            THEN Append(kept, releases[i]) ELSE kept)

\* FilterToCurrentPlatform: the releases left and the value returned.
FilterToCurrentPlatform(releases, current_platform) ==
    IF current_platform # "kUnknown"
    THEN LET left == RemoveOtherPlatforms(releases, current_platform, 1, <<>>)
         IN [releases |-> left, may_have_updates |-> Len(left) > 0]
    ELSE [releases |-> releases, may_have_updates |-> TRUE]

\* -------------------------------------------- ConvertJsonSchema_1_5_To_1_6

\* The match of a release and a package, forgetting the release type.
SameReleasePlatformsOnly(release, package) ==
    release.target_platforms = package.target_platforms

\* The condition of the search for an existing release (std::vector ==, then type).
SameRelease(release, package) ==
    /\ release.target_platforms = package.target_platforms
    /\ release.type = package.release_type

\* The inner loop has no break: the last matching release is the one found.
\* 0 stands for nullptr.
ExistingRelease(releases, package) ==
    LET hits == { i \in 1..Len(releases) : SameRelease(releases[i], package) }
    IN IF hits = {} THEN 0 ELSE CHOOSE i \in hits : \A j \in hits : j <= i

\* transfer_release_info without the tag of the release type.
TransferReleaseInfoPlatformTagsOnly(update_info_1_5, package) ==
    ReleaseInfo(update_info_1_5.release_version,
                update_info_1_5.release_date,
                update_info_1_5.release_description,
                package.target_platforms,
                package.release_type,
                [i \in 1..Len(package.target_platforms) |->
                    TargetPlatformToString(package.target_platforms[i])],
                <<>>,
                update_info_1_5.info_links)

\* transfer_release_info: the fields copied from the 1.5 document and the package.
TransferReleaseInfo(update_info_1_5, package) ==
    ReleaseInfo(update_info_1_5.release_version,
                update_info_1_5.release_date,
                update_info_1_5.release_description,
                package.target_platforms,
                package.release_type,
                [i \in 1..Len(package.target_platforms) |->
                    TargetPlatformToString(package.target_platforms[i])]
                    \o <<ReleaseTypeToString(package.release_type)>>,
                <<>>,
                update_info_1_5.info_links)

\* One pass of the loop over available_packages.
ConvertPackage(update_info_1_5, package, releases) ==
    LET found == ExistingRelease(releases, package)
        all == IF found = 0
               THEN Append(releases, TransferReleaseInfo(update_info_1_5, package))
               ELSE releases
        at == IF found = 0 THEN Len(all) ELSE found
    IN [all EXCEPT ![at].download_links =
            Append(@, DownloadLink(package.url, package.package_type, ""))]

RECURSIVE ConvertPackages(_, _, _)
ConvertPackages(update_info_1_5, i, releases) ==
    IF i > Len(update_info_1_5.available_packages) THEN releases
    ELSE ConvertPackages(update_info_1_5, i + 1,
            ConvertPackage(update_info_1_5, update_info_1_5.available_packages[i], releases))

\* ConvertJsonSchema_1_5_To_1_6: the releases of update_info afterwards (it
\* always returns true).
ConvertJsonSchema_1_5_To_1_6(update_info_1_5, releases) ==
    ConvertPackages(update_info_1_5, 1, releases)

\* ----------------------------------------------------------------- strings

\* std::string::npos; positions count from 0 as in the code, and -1 is what
\* size_t arithmetic makes of 0 - 1.
Npos == 0 - 1

\* std::string::find(pat): the first position where pat occurs.
Find(s, pat) ==
    LET hits == { i \in 0..(Len(s) - Len(pat)) : SubSeq(s, i + 1, i + Len(pat)) = pat }
    IN IF hits = {} THEN Npos ELSE CHOOSE i \in hits : \A j \in hits : i <= j

\* std::string::rfind(pat): the last position where pat occurs.
RFind(s, pat) ==
    LET hits == { i \in 0..(Len(s) - Len(pat)) : SubSeq(s, i + 1, i + Len(pat)) = pat }
    IN IF hits = {} THEN Npos ELSE CHOOSE i \in hits : \A j \in hits : j <= i

\* std::string::find_last_of(chars)
FindLastOf(s, chars) ==
    LET hits == { i \in 0..(Len(s) - 1) : s[i + 1] \in chars }
    IN IF hits = {} THEN Npos ELSE CHOOSE i \in hits : \A j \in hits : j <= i

\* std::string::substr(pos, count) for pos <= size: count is a size_t, so a
\* negative difference is a huge count and the rest of the string is taken.
Substr(s, pos, count) ==
    IF count < 0 \/ pos + count > Len(s) THEN SubSeq(s, pos + 1, Len(s))
    ELSE SubSeq(s, pos + 1, pos + count)

kStringJsonFileExtension == <<".", "j", "s", "o", "n">>
kStringHttpPrefix == <<"h", "t", "t", "p">>
kStringGithubReleasesLatest ==
    <<"/", "r", "e", "l", "e", "a", "s", "e", "s", "/", "l", "a", "t", "e", "s", "t">>
kStringLatestJsonFilename ==
    <<"A", "M", "D", "T", "o", "o", "l", "s", "L", "a", "t", "e", "s", "t",
      "R", "e", "l", "e", "a", "s", "e", ".", "j", "s", "o", "n">>

\* -------------------------------------------------------------------- JSON

\* nlohmann::json values.
JNull == [t |-> "null"]
JStr(s) == [t |-> "string", s |-> s]
JNum(n) == [t |-> "number", n |-> n]
JArr(a) == [t |-> "array", a |-> a]
JObj(o) == [t |-> "object", o |-> o]

\* find(key) != end(): find on a value that is no object returns end().
Has(j, key) == j.t = "object" /\ key \in DOMAIN j.o

\* *find(key), or j[key] once find(key) has succeeded.
At(j, key) == j.o[key]

\* json::empty(): null is empty, a scalar never is.
JEmpty(j) ==
    CASE j.t = "null" -> TRUE
      [] j.t = "object" -> DOMAIN j.o = {}
      [] j.t = "array" -> Len(j.a) = 0
      [] OTHER -> FALSE

\* What begin() .. end() visits: the elements of an array, a scalar itself,
\* nothing for null.  (The documents of the model hold no object where the code
\* iterates.)
Items(j) ==
    CASE j.t = "array" -> j.a
      [] j.t = "null" -> <<>>
      [] OTHER -> <<j>>

\* get<std::string>() throws type_error unless the value is a string.
IsString(j) == j.t = "string"

\* get<uint32_t>() throws type_error unless the value is a number.
IsNumber(j) == j.t = "number"

\* The text of a file or of an HTTP response body.
EmptyText == [kind |-> "empty"]
GarbageText == [kind |-> "garbage"]
JsonText(doc) == [kind |-> "json", doc |-> doc]

\* json::parse throws parse_error unless the text is a JSON document.
IsJson(text) == text.kind = "json"

\* ---------------------------------------------------------- parse results

\* What a parsing function has done so far: whether an exception is in flight
\* (thrown), its is_parsed / is_valid flag (ok), the pieces it appended to
\* error_message (err) and the object it fills (out).
Acc(out) == [thrown |-> FALSE, ok |-> TRUE, err |-> <<>>, out |-> out]

\* The message appended without is_parsed = false.
FailKeepsFlag(acc, msg) == [acc EXCEPT !.err = Append(@, msg)]

\* is_parsed = false; error_message.append(msg);
Fail(acc, msg) == [acc EXCEPT !.ok = FALSE, !.err = Append(@, msg)]

\* is_parsed = false;
FailQuietly(acc) == [acc EXCEPT !.ok = FALSE]

\* An exception leaves the function.
Throw(acc) == [acc EXCEPT !.thrown = TRUE]

\* What an uninitialized VersionInfo or ReleaseType may hold.
UninitValues ==
    { [version |-> VersionInfo(0, 0, 0, 0), type |-> "kUnknown"],
      [version |-> VersionInfo(7, 7, 7, 7), type |-> "kDevelopment"] }

\* --------------------------------------------------- SplitVersionString_1_3

Digits == {"0", "1", "2", "3", "4", "5", "6", "7", "8", "9"}

DigitValue(c) ==
    CASE c = "0" -> 0 [] c = "1" -> 1 [] c = "2" -> 2 [] c = "3" -> 3 [] c = "4" -> 4
      [] c = "5" -> 5 [] c = "6" -> 6 [] c = "7" -> 7 [] c = "8" -> 8 [] c = "9" -> 9

\* The %u conversion at position i (from 1) of s: the digits it takes.  The
\* strings of the model hold no blank, sign or number that overflows.
RECURSIVE DigitsEnd(_, _)
DigitsEnd(s, i) == IF i <= Len(s) /\ s[i] \in Digits THEN DigitsEnd(s, i + 1) ELSE i

RECURSIVE Decimal(_, _, _, _)
Decimal(s, i, j, value) ==
    IF i >= j THEN value ELSE Decimal(s, i + 1, j, value * 10 + DigitValue(s[i]))

\* sscanf(s, "%u.%u.%u.%u"): the values converted, in order (at most 4).
RECURSIVE ScanVersion(_, _, _)
ScanVersion(s, i, values) ==
    LET j == DigitsEnd(s, i)
    IN IF j = i THEN values
       ELSE LET more == Append(values, Decimal(s, i, j, 0))
            IN IF Len(more) = 4 \/ j > Len(s) \/ s[j] # "." THEN more
               ELSE ScanVersion(s, j + 1, more)

\* A SplitVersionString_1_3 that does not zero the components before the scan.
SplitVersionString_1_3KeepsCaller(version, version_info) ==
    IF version = <<>> THEN FailQuietly(Acc(version_info))
    ELSE LET values == ScanVersion(version, 1, <<>>)
             part(k, old) == IF k <= Len(values) THEN values[k] ELSE old
             scanned == VersionInfo(part(1, version_info.major), part(2, version_info.minor),
                                    part(3, version_info.patch), part(4, version_info.build))
         IN IF Len(values) <= 0 \/ Len(values) > 4
            THEN Fail(Acc(scanned), "kStringErrorInvalidVersionNumberProvided")
            ELSE Acc(scanned)

\* SplitVersionString_1_3: version_info is what the caller's VersionInfo held.
SplitVersionString_1_3(version, version_info) ==
    IF version = <<>> THEN FailQuietly(Acc(version_info))
    ELSE LET values == ScanVersion(version, 1, <<>>)
             part(k) == IF k <= Len(values) THEN values[k] ELSE 0
             scanned == VersionInfo(part(1), part(2), part(3), part(4))
         IN IF Len(values) <= 0 \/ Len(values) > 4
            THEN Fail(Acc(scanned), "kStringErrorInvalidVersionNumberProvided")
            ELSE Acc(scanned)

\* --------------------------------------------------- SplitVersionString_1_5

\* SplitVersionString_1_5: json_doc is the ReleaseVersion value, version_info
\* what the caller's VersionInfo held.
SplitVersionString_1_5(json_doc, version_info) ==
    LET parts == <<"Major", "Minor", "Patch", "Build">>
        present(k) == Has(json_doc, parts[k])
        value(k, old) == IF present(k) THEN At(json_doc, parts[k]).n ELSE old
    IN IF \A k \in 1..4 : ~present(k)
       THEN Fail(Acc(version_info), "kStringErrorInvalidVersionNumberProvided")
       ELSE IF \E k \in 1..4 : present(k) /\ ~IsNumber(At(json_doc, parts[k]))
       THEN Throw(Acc(version_info))
       ELSE Acc(VersionInfo(value(1, version_info.major), value(2, version_info.minor),
                            value(3, version_info.patch), value(4, version_info.build)))

\* ------------------------------------------------------ token recognition

\* GetPackageType_1_3: [known, platform, package_type]
GetPackageType_1_3(package_string) ==
    CASE package_string = "Windows_ZIP" ->
            [known |-> TRUE, platform |-> "kWindows", package_type |-> "kZip"]
      [] package_string = "Windows_MSI" ->
            [known |-> TRUE, platform |-> "kWindows", package_type |-> "kMsi"]
      [] package_string = "Linux_TAR" ->
            [known |-> TRUE, platform |-> "kUbuntu", package_type |-> "kTar"]
      [] package_string = "Linux_RPM" ->
            [known |-> TRUE, platform |-> "kUbuntu", package_type |-> "kRpm"]
      [] package_string = "Linux_Debian" ->
            [known |-> TRUE, platform |-> "kUbuntu", package_type |-> "kDebian"]
      [] OTHER -> [known |-> FALSE, platform |-> "kUnknown", package_type |-> "kUnknown"]

\* GetPackageType_1_5: [known, package_type]
GetPackageType_1_5(package_string) ==
    CASE package_string = "ZIP" -> [known |-> TRUE, package_type |-> "kZip"]
      [] package_string = "MSI" -> [known |-> TRUE, package_type |-> "kMsi"]
      [] package_string = "TAR" -> [known |-> TRUE, package_type |-> "kTar"]
      [] package_string = "RPM" -> [known |-> TRUE, package_type |-> "kRpm"]
      [] package_string = "Debian" -> [known |-> TRUE, package_type |-> "kDebian"]
      [] OTHER -> [known |-> FALSE, package_type |-> "kUnknown"]

\* A GetReleaseType_1_5 that returns true for a string it does not know.
GetReleaseType_1_5AcceptsOther(release_type_string) ==
    CASE release_type_string = "GA" -> [known |-> TRUE, release_type |-> "kGeneralAvailability"]
      [] release_type_string = "Beta" -> [known |-> TRUE, release_type |-> "kBeta"]
      [] release_type_string = "Alpha" -> [known |-> TRUE, release_type |-> "kAlpha"]
      [] release_type_string = "Patch" -> [known |-> TRUE, release_type |-> "kPatch"]
      [] release_type_string = "Development" -> [known |-> TRUE, release_type |-> "kDevelopment"]
      [] OTHER -> [known |-> TRUE, release_type |-> "kUnknown"]

\* GetReleaseType_1_5: [known, release_type]
GetReleaseType_1_5(release_type_string) ==
    CASE release_type_string = "GA" -> [known |-> TRUE, release_type |-> "kGeneralAvailability"]
      [] release_type_string = "Beta" -> [known |-> TRUE, release_type |-> "kBeta"]
      [] release_type_string = "Alpha" -> [known |-> TRUE, release_type |-> "kAlpha"]
      [] release_type_string = "Patch" -> [known |-> TRUE, release_type |-> "kPatch"]
      [] release_type_string = "Development" -> [known |-> TRUE, release_type |-> "kDevelopment"]
      [] OTHER -> [known |-> FALSE, release_type |-> "kUnknown"]

\* GetReleaseType_1_6
GetReleaseType_1_6(release_type_string) == GetReleaseType_1_5(release_type_string)

\* GetPackageType_1_6
GetPackageType_1_6(package_string) == GetPackageType_1_5(package_string)

\* The platform of a token, "kUnknown" for one that is not recognized.
PlatformOfToken(platform_string) ==
    CASE platform_string = "Windows" -> "kWindows"
      [] platform_string = "Ubuntu" -> "kUbuntu"
      [] platform_string = "RHEL" -> "kRhel"
      [] platform_string = "Darwin" -> "kDarwin"
      [] OTHER -> "kUnknown"

\* The loop going on after a token that is not recognized.
RECURSIVE PlatformLoopSkipsUnknown(_, _, _, _)
PlatformLoopSkipsUnknown(items, i, acc, invalid_message) ==
    IF i > Len(items) THEN acc
    ELSE IF ~IsString(items[i]) THEN Throw(acc)
    ELSE IF PlatformOfToken(items[i].s) = "kUnknown"
    THEN PlatformLoopSkipsUnknown(items, i + 1, acc, invalid_message)
    ELSE PlatformLoopSkipsUnknown(items, i + 1,
                      [acc EXCEPT !.ok = TRUE, !.out = Append(@, PlatformOfToken(items[i].s))],
                      invalid_message)

\* The loop of GetTargetPlatform_1_5 and GetReleasePlatform_1_6: acc.ok is
\* is_known_type, acc.out the platforms pushed.
RECURSIVE PlatformLoop(_, _, _, _)
PlatformLoop(items, i, acc, invalid_message) ==
    IF i > Len(items) THEN acc
    ELSE IF ~IsString(items[i]) THEN Throw(acc)
    ELSE IF PlatformOfToken(items[i].s) = "kUnknown" THEN Fail(acc, invalid_message)
    ELSE PlatformLoop(items, i + 1,
                      [acc EXCEPT !.ok = TRUE, !.out = Append(@, PlatformOfToken(items[i].s))],
                      invalid_message)

\* GetTargetPlatform_1_5: platforms is what the caller's vector held.
GetTargetPlatform_1_5(target_platforms_json, platforms) ==
    IF JEmpty(target_platforms_json)
    THEN Fail(Acc(platforms),
              "kStringErrorVersionFileContainsAnEmptyDownloadLinksTargetPlatformsList")
    ELSE PlatformLoop(Items(target_platforms_json), 1, FailQuietly(Acc(platforms)),
              "kStringErrorVersionFileContainsAnInvalidDownloadLinksTargetPlatformValue")

\* GetReleasePlatform_1_6
GetReleasePlatform_1_6(target_platforms_json, platforms) ==
    IF JEmpty(target_platforms_json)
    THEN Fail(Acc(platforms), "kStringErrorVersionFileContainsAnEmptyReleasePlatformsList")
    ELSE PlatformLoop(Items(target_platforms_json), 1, FailQuietly(Acc(platforms)),
              "kStringErrorVersionFileContainsAnInvalidReleasePlatformsValue")

\* ------------------------------------------------------ ParseJsonSchema_1_3

\* The loop over InfoPageURL / InfoPageLinks (the same code in the three
\* parsers): acc.out is the info_links vector.
RECURSIVE InfoLinksLoop(_, _, _, _)
InfoLinksLoop(items, i, acc, incomplete_message) ==
    IF i > Len(items) THEN acc
    ELSE IF Has(items[i], "URL") /\ Has(items[i], "Description")
    THEN IF ~IsString(At(items[i], "URL")) \/ ~IsString(At(items[i], "Description"))
         THEN Throw(acc)
         ELSE InfoLinksLoop(items, i + 1,
                  [acc EXCEPT !.out = Append(@, InfoPageLink(At(items[i], "URL").s,
                                                             At(items[i], "Description").s))],
                  incomplete_message)
    ELSE InfoLinksLoop(items, i + 1, Fail(acc, incomplete_message), incomplete_message)

\* Runs a loop that fills one field of acc.out.
OnField(acc, field, looped) == [looped EXCEPT !.out = [acc.out EXCEPT ![field] = looped.out]]
FieldAcc(acc, field) == [acc EXCEPT !.out = acc.out[field]]

\* A string field copied into a field of acc.out, or its missing-entry message.
StringField(json_doc, key, acc, field, missing_message) ==
    IF acc.thrown THEN acc
    ELSE IF ~Has(json_doc, key) THEN Fail(acc, missing_message)
    ELSE IF ~IsString(At(json_doc, key)) THEN Throw(acc)
    ELSE [acc EXCEPT !.out[field] = At(json_doc, key).s]

\* "Extract VersionString."
VersionString_1_3(json_document, acc) ==
    IF ~Has(json_document, "VersionString")
    THEN Fail(acc, "kStringErrorVersionFileIsMissingTheVersionStringEntry")
    ELSE IF ~IsString(At(json_document, "VersionString")) THEN Throw(acc)
    ELSE LET split == SplitVersionString_1_3(At(json_document, "VersionString").s,
                                             acc.out.release_version)
         IN [acc EXCEPT !.ok = @ /\ split.ok, !.err = @ \o split.err,
                        !.out.release_version = split.out]

\* "Extract InfoPageLink."
InfoPageUrl_1_3(json_document, acc) ==
    IF acc.thrown THEN acc
    ELSE IF ~Has(json_document, "InfoPageURL")
    THEN Fail(acc, "kStringErrorVersionFileIsMissingTheInfoPageUrlEntry")
    ELSE IF JEmpty(At(json_document, "InfoPageURL"))
    THEN Fail(acc, "kStringErrorVersionFileContainsAnEmptyInfoPageUrlList")
    ELSE OnField(acc, "info_links",
            InfoLinksLoop(Items(At(json_document, "InfoPageURL")), 1,
                          FieldAcc(acc, "info_links"),
                          "kStringErrorVersionFileContainsAnIncompleteInfoPageUrlEntry"))

\* The loop over DownloadURL: acc.out is the available_packages vector.
RECURSIVE DownloadUrlLoop_1_3(_, _, _)
DownloadUrlLoop_1_3(items, i, acc) ==
    IF i > Len(items) THEN acc
    ELSE IF Has(items[i], "URL") /\ Has(items[i], "TargetInfo")
    THEN IF ~IsString(At(items[i], "TargetInfo")) THEN Throw(acc)
         ELSE LET target == GetPackageType_1_3(At(items[i], "TargetInfo").s)
              IN IF ~target.known
                 THEN DownloadUrlLoop_1_3(items, i + 1,
                        Fail(acc, "kStringErrorVersionFileContainsAnInvalidDownloadUrlTargetInfoValue"))
                 ELSE IF ~IsString(At(items[i], "URL")) THEN Throw(acc)
                 ELSE DownloadUrlLoop_1_3(items, i + 1,
                        [acc EXCEPT !.out = Append(@,
                            UpdatePackage_1_5(At(items[i], "URL").s, target.package_type,
                                              "kGeneralAvailability", <<target.platform>>))])
    ELSE DownloadUrlLoop_1_3(items, i + 1,
            Fail(acc, "kStringErrorVersionFileContainsAnIncompleteDownloadUrlEntry"))

\* "Extract DownloadURL."
DownloadUrl_1_3(json_document, acc) ==
    IF acc.thrown THEN acc
    ELSE IF ~Has(json_document, "DownloadURL")
    THEN Fail(acc, "kStringErrorVersionFileIsMissingTheDownloadUrlEntry")
    ELSE IF JEmpty(At(json_document, "DownloadURL"))
    THEN Fail(acc, "kStringErrorVersionFileContainsAnEmptyDownloadUrlList")
    ELSE OnField(acc, "available_packages",
            DownloadUrlLoop_1_3(Items(At(json_document, "DownloadURL")), 1,
                                FieldAcc(acc, "available_packages")))

\* The UpdateInfo_1_5 local of ParseJsonString before a parser fills it.
FreshUpdateInfo_1_5(uninit) == UpdateInfo_1_5(uninit.version, "", "", <<>>, <<>>)

\* ParseJsonSchema_1_3: acc.out is update_info (an UpdateInfo_1_5).
ParseJsonSchema_1_3(json_document, uninit) ==
    LET a1 == VersionString_1_3(json_document, Acc(FreshUpdateInfo_1_5(uninit)))
        a2 == StringField(json_document, "ReleaseDate", a1, "release_date",
                          "kStringErrorVersionFileIsMissingTheReleaseDateEntry")
        a3 == StringField(json_document, "Description", a2, "release_description",
                          "kStringErrorVersionFileIsMissingTheDescriptionEntry")
        a4 == InfoPageUrl_1_3(json_document, a3)
    IN DownloadUrl_1_3(json_document, a4)

\* ------------------------------------------------------ ParseJsonSchema_1_5

\* "Extract ReleaseVersion." of the 1.5 and 1.6 parsers: acc.out[field] is the
\* VersionInfo.
ReleaseVersion_1_5(json_doc, acc, field) ==
    IF acc.thrown THEN acc
    ELSE IF ~Has(json_doc, "ReleaseVersion")
    THEN Fail(acc, "kStringErrorVersionFileIsMissingTheReleaseVersionEntry")
    ELSE LET split == SplitVersionString_1_5(At(json_doc, "ReleaseVersion"), acc.out[field])
         IN [acc EXCEPT !.thrown = split.thrown, !.ok = @ /\ split.ok,
                        !.err = @ \o split.err, !.out[field] = split.out]

\* "Extract InfoPageLinks." of the 1.5 and 1.6 parsers.
InfoPageLinks_1_5(json_doc, acc) ==
    IF acc.thrown THEN acc
    ELSE IF ~Has(json_doc, "InfoPageLinks")
    THEN Fail(acc, "kStringErrorVersionFileIsMissingTheInfoPageLinksEntry")
    ELSE IF JEmpty(At(json_doc, "InfoPageLinks"))
    THEN Fail(acc, "kStringErrorVersionFileContainsAnEmptyInfoPageLinksList")
    ELSE OnField(acc, "info_links",
            InfoLinksLoop(Items(At(json_doc, "InfoPageLinks")), 1,
                          FieldAcc(acc, "info_links"),
                          "kStringErrorVersionFileContainsAnIncompleteInfoPageLinksEntry"))

\* One download link of a 1.5 document: acc.out is the available_packages vector.
DownloadLink_1_5(link, acc) ==
    IF ~Has(link, "URL")
    THEN Fail(acc, "kStringErrorVersionFileIsMissingTheDownloadLinksUrlEntry")
    ELSE IF ~Has(link, "TargetPlatforms")
    THEN Fail(acc, "kStringErrorVersionFileIsMissingTheDownloadLinksTargetPlatformsEntry")
    ELSE IF ~Has(link, "PackageType")
    THEN Fail(acc, "kStringErrorVersionFileIsMissingTheDownloadLinksPackageTypeEntry")
    ELSE IF ~Has(link, "ReleaseType")
    THEN Fail(acc, "kStringErrorVersionFileIsMissingTheDownloadLinksReleaseTypeEntry")
    ELSE IF ~IsString(At(link, "ReleaseType")) THEN Throw(acc)
    ELSE IF ~GetReleaseType_1_5(At(link, "ReleaseType").s).known
    THEN Fail(acc, "kStringErrorVersionFileContainsAnInvalidDownloadLinksReleaseTypeValue")
    ELSE IF ~IsString(At(link, "PackageType")) THEN Throw(acc)
    ELSE IF ~GetPackageType_1_5(At(link, "PackageType").s).known
    THEN Fail(acc, "kStringErrorVersionFileContainsAnInvalidDownloadLinksPackageTypeValue")
    ELSE LET platforms == GetTargetPlatform_1_5(At(link, "TargetPlatforms"), <<>>)
         IN IF platforms.thrown THEN Throw(acc)
            ELSE IF ~platforms.ok
            THEN [acc EXCEPT !.ok = FALSE, !.err = @ \o platforms.err]
            ELSE IF ~IsString(At(link, "URL")) THEN Throw(acc)
            ELSE [acc EXCEPT !.out = Append(@,
                    UpdatePackage_1_5(At(link, "URL").s,
                                      GetPackageType_1_5(At(link, "PackageType").s).package_type,
                                      GetReleaseType_1_5(At(link, "ReleaseType").s).release_type,
                                      platforms.out))]

RECURSIVE DownloadLinksLoop_1_5(_, _, _)
DownloadLinksLoop_1_5(items, i, acc) ==
    IF i > Len(items) \/ acc.thrown THEN acc
    ELSE DownloadLinksLoop_1_5(items, i + 1, DownloadLink_1_5(items[i], acc))

\* "Extract DownloadLinks." of the 1.5 parser.
DownloadLinks_1_5(json_doc, acc) ==
    IF acc.thrown THEN acc
    ELSE IF ~Has(json_doc, "DownloadLinks")
    THEN Fail(acc, "kStringErrorVersionFileIsMissingTheDownloadLinksEntry")
    ELSE IF JEmpty(At(json_doc, "DownloadLinks"))
    THEN Fail(acc, "kStringErrorVersionFileContainsAnEmptyDownloadLinksList")
    ELSE OnField(acc, "available_packages",
            DownloadLinksLoop_1_5(Items(At(json_doc, "DownloadLinks")), 1,
                                  FieldAcc(acc, "available_packages")))

\* ParseJsonSchema_1_5: acc.out is update_info (an UpdateInfo_1_5).
ParseJsonSchema_1_5(json_doc, uninit) ==
    LET a1 == ReleaseVersion_1_5(json_doc, Acc(FreshUpdateInfo_1_5(uninit)), "release_version")
        a2 == StringField(json_doc, "ReleaseDate", a1, "release_date",
                          "kStringErrorVersionFileIsMissingTheReleaseDateEntry")
        a3 == StringField(json_doc, "ReleaseDescription", a2, "release_description",
                          "kStringErrorVersionFileIsMissingTheReleaseDescriptionEntry")
        a4 == InfoPageLinks_1_5(json_doc, a3)
    IN DownloadLinks_1_5(json_doc, a4)

\* ------------------------------------------------------ ParseJsonSchema_1_6

\* A ReleaseInfo local before the parser fills it: version and type have no
\* initializer.
FreshReleaseInfo(uninit) == ReleaseInfo(uninit.version, "", "", <<>>, uninit.type, <<>>, <<>>, <<>>)

\* "Extract ReleaseType."
ReleaseType_1_6(release_json, acc) ==
    IF acc.thrown THEN acc
    ELSE IF ~Has(release_json, "ReleaseType")
    THEN Fail(acc, "kStringErrorVersionFileIsMissingTheReleaseTypeEntry")
    ELSE IF ~IsString(At(release_json, "ReleaseType")) THEN Throw(acc)
    ELSE LET type == GetReleaseType_1_6(At(release_json, "ReleaseType").s)
             typed == [acc EXCEPT !.out.type = type.release_type]
         IN IF type.known THEN typed
            ELSE Fail(typed, "kStringErrorVersionFileContainsAnInvalidReleaseTypeValue")

\* "Extract ReleasePlatforms."
ReleasePlatforms_1_6(release_json, acc) ==
    IF acc.thrown THEN acc
    ELSE IF ~Has(release_json, "ReleasePlatforms")
    THEN Fail(acc, "kStringErrorVersionFileIsMissingTheReleasePlatformsEntry")
    ELSE LET platforms == GetReleasePlatform_1_6(At(release_json, "ReleasePlatforms"),
                                                 acc.out.target_platforms)
         IN [acc EXCEPT !.thrown = platforms.thrown, !.ok = @ /\ platforms.ok,
                        !.err = @ \o platforms.err, !.out.target_platforms = platforms.out]

\* The loop over ReleaseTags: acc.out is the tags vector.
RECURSIVE TagsLoop(_, _, _)
TagsLoop(items, i, acc) ==
    IF i > Len(items) THEN acc
    ELSE IF ~IsString(items[i]) THEN Throw(acc)
    ELSE TagsLoop(items, i + 1, [acc EXCEPT !.out = Append(@, items[i].s)])

\* "Extract ReleaseTags."
ReleaseTags_1_6(release_json, acc) ==
    IF acc.thrown THEN acc
    ELSE IF ~Has(release_json, "ReleaseTags")
    THEN Fail(acc, "kStringErrorVersionFileIsMissingTheReleaseTagsEntry")
    ELSE OnField(acc, "tags",
            TagsLoop(Items(At(release_json, "ReleaseTags")), 1, FieldAcc(acc, "tags")))

\* One download link of a 1.6 release: acc.out is the download_links vector.
DownloadLink_1_6(link, acc) ==
    IF ~Has(link, "URL")
    THEN Fail(acc, "kStringErrorVersionFileIsMissingTheDownloadLinksUrlEntry")
    ELSE IF ~Has(link, "PackageType")
    THEN Fail(acc, "kStringErrorVersionFileIsMissingTheDownloadLinksPackageTypeEntry")
    ELSE IF ~IsString(At(link, "PackageType")) THEN Throw(acc)
    ELSE IF ~GetPackageType_1_6(At(link, "PackageType").s).known
    THEN Fail(acc, "kStringErrorVersionFileContainsAnInvalidDownloadLinksPackageTypeValue")
    ELSE IF ~IsString(At(link, "URL")) THEN Throw(acc)
    ELSE IF Has(link, "PackageName") /\ ~IsString(At(link, "PackageName")) THEN Throw(acc)
    ELSE [acc EXCEPT !.out = Append(@,
            DownloadLink(At(link, "URL").s,
                         GetPackageType_1_6(At(link, "PackageType").s).package_type,
                         IF Has(link, "PackageName") THEN At(link, "PackageName").s ELSE ""))]

RECURSIVE DownloadLinksLoop_1_6(_, _, _)
DownloadLinksLoop_1_6(items, i, acc) ==
    IF i > Len(items) \/ acc.thrown THEN acc
    ELSE DownloadLinksLoop_1_6(items, i + 1, DownloadLink_1_6(items[i], acc))

\* "Extract DownloadLinks." of the 1.6 parser: skipped once is_parsed is false.
DownloadLinks_1_6(release_json, acc) ==
    IF acc.thrown \/ ~acc.ok THEN acc
    ELSE IF ~Has(release_json, "DownloadLinks")
    THEN Fail(acc, "kStringErrorVersionFileIsMissingTheDownloadLinksEntry")
    ELSE IF JEmpty(At(release_json, "DownloadLinks"))
    THEN Fail(acc, "kStringErrorVersionFileContainsAnEmptyDownloadLinksList")
    ELSE OnField(acc, "download_links",
            DownloadLinksLoop_1_6(Items(At(release_json, "DownloadLinks")), 1,
                                  FieldAcc(acc, "download_links")))

\* The body of the loop over Releases up to the push_back: acc carries the
\* parser's is_parsed and error_message, acc.out is release_info.
ParseRelease_1_6(release_json, acc) ==
    LET a1 == ReleaseVersion_1_5(release_json, acc, "version")
        a2 == StringField(release_json, "ReleaseDate", a1, "date",
                          "kStringErrorVersionFileIsMissingTheReleaseDateEntry")
        a3 == StringField(release_json, "ReleaseTitle", a2, "title",
                          "kStringErrorVersionFileIsMissingTheReleaseTitleEntry")
        a4 == ReleaseType_1_6(release_json, a3)
        a5 == ReleasePlatforms_1_6(release_json, a4)
        a6 == ReleaseTags_1_6(release_json, a5)
        a7 == InfoPageLinks_1_5(release_json, a6)
    IN DownloadLinks_1_6(release_json, a7)

\* update_info.releases.push_back(release_info): one is what the body of the
\* loop has made of release_info.  The release is pushed whatever is_parsed
\* says; an exception leaves before the push.
PushRelease(releases, one) ==
    IF one.thrown THEN [one EXCEPT !.out = releases]
    ELSE [one EXCEPT !.out = Append(releases, one.out)]

\* The loop over Releases: acc.out is update_info.releases.
RECURSIVE ReleasesLoop_1_6(_, _, _, _)
ReleasesLoop_1_6(items, i, acc, uninit) ==
    IF i > Len(items) \/ acc.thrown THEN acc
    ELSE ReleasesLoop_1_6(items, i + 1,
            PushRelease(acc.out,
                ParseRelease_1_6(items[i], [acc EXCEPT !.out = FreshReleaseInfo(uninit)])),
            uninit)

\* ParseJsonSchema_1_6: releases is what update_info.releases held; acc.out is
\* update_info.releases afterwards.
ParseJsonSchema_1_6(json_doc, releases, uninit) ==
    IF ~Has(json_doc, "Releases")
    THEN Fail(Acc(releases), "kStringErrorVersionFileIsMissingTheReleasesEntry")
    ELSE IF JEmpty(At(json_doc, "Releases"))
    THEN Fail(Acc(releases), "kStringErrorVersionFileContainsAnEmptyReleasesList")
    ELSE ReleasesLoop_1_6(Items(At(json_doc, "Releases")), 1, Acc(releases), uninit)

\* ---------------------------------------------------------- ParseJsonString

SCHEMA_VERSION_1_3 == "1.3"
SCHEMA_VERSION_1_5 == "1.5"
SCHEMA_VERSION_1_6 == "1.6"

\* A parse result together with the schema functions that were called.
Ran(acc, ran) ==
    [thrown |-> acc.thrown, ok |-> acc.ok, err |-> acc.err, out |-> acc.out, ran |-> ran]

\* The branch of ParseJsonString for schema 1.3 or 1.5: parsed is what the
\* parser returned, and the conversion runs only when it returned true.
ParseOlderSchema(parsed, releases, parser) ==
    IF parsed.thrown \/ ~parsed.ok
    THEN Ran([parsed EXCEPT !.out = releases], <<parser>>)
    ELSE Ran([parsed EXCEPT !.out = ConvertJsonSchema_1_5_To_1_6(parsed.out, releases)],
             <<parser, "ConvertJsonSchema_1_5_To_1_6">>)

\* The try block of ParseJsonString.
TryParseJsonString(json_string, releases, uninit) ==
    LET none == Ran(Acc(releases), <<>>)
    IN IF ~IsJson(json_string) THEN Throw(none)
       ELSE LET json_doc == json_string.doc
            IN IF JEmpty(json_doc) \/ ~Has(json_doc, "SchemaVersion")
               THEN Fail(none, "kStringErrorVersionFileIsMissingTheSchemaVersionEntry")
               ELSE IF ~IsString(At(json_doc, "SchemaVersion")) THEN Throw(none)
               ELSE IF At(json_doc, "SchemaVersion").s = SCHEMA_VERSION_1_3
               THEN ParseOlderSchema(ParseJsonSchema_1_3(json_doc, uninit), releases,
                                     "ParseJsonSchema_1_3")
               ELSE IF At(json_doc, "SchemaVersion").s = SCHEMA_VERSION_1_5
               THEN ParseOlderSchema(ParseJsonSchema_1_5(json_doc, uninit), releases,
                                     "ParseJsonSchema_1_5")
               ELSE IF At(json_doc, "SchemaVersion").s = SCHEMA_VERSION_1_6
               THEN Ran(ParseJsonSchema_1_6(json_doc, releases, uninit),
                        <<"ParseJsonSchema_1_6">>)
               ELSE Fail(none, "kStringErrorUnsupportedSchemaVersion")

\* The catch block of ParseJsonString, and its return: tried is what the try
\* block has done.
CatchParseJsonString(tried) ==
    IF tried.thrown
    THEN [is_parsed |-> FALSE, releases |-> tried.out, ran |-> tried.ran,
          err |-> tried.err \o <<"kStringFailedToParseVersionFile", "e.what()">>]
    ELSE [is_parsed |-> tried.ok, releases |-> tried.out, ran |-> tried.ran,
          err |-> tried.err]

\* ParseJsonString: is_parsed, update_info.releases afterwards, the pieces
\* appended to error_message, and the schema functions called.
ParseJsonString(json_string, releases, uninit) ==
    CatchParseJsonString(TryParseJsonString(json_string, releases, uninit))

\* ------------------------------------------------------------ the reference

\* operator>> into a uint32_t at position i (from 1) of s, then operator>>
\* into dot: the numbers read so far, or <<>> once an extraction fails.  The
\* strings of the model hold no blank, sign or number that overflows.
RECURSIVE ReadVersion(_, _, _)
ReadVersion(s, i, values) ==
    LET j == DigitsEnd(s, i)
    IN IF j = i THEN <<>>
       ELSE LET more == Append(values, Decimal(s, i, j, 0))
            IN IF Len(more) = 4 THEN more
               ELSE IF j > Len(s) \/ s[j] # "." THEN <<>>
               ELSE ReadVersion(s, j + 1, more)

\* ParseVersionString: ret, and the version when ret is true (GetToolVersion
\* overwrites whatever a failed parse has left in it).
ParseVersionString(version_str, version) ==
    LET values == ReadVersion(version_str, 1, <<>>)
    IN IF Len(values) = 4
       THEN [ret |-> TRUE, version |-> VersionInfo(values[1], values[2], values[3], values[4])]
       ELSE [ret |-> FALSE, version |-> version]

\* getenv: <<>> stands for nullptr, <<value>> for a variable that is set.
Unset == <<>>

\* A GetToolVersion that leaves the caller's version when the parse fails.
GetToolVersionKeepsCaller(tool_version, version) ==
    IF tool_version # Unset /\ ParseVersionString(tool_version[1], version).ret
    THEN [ret |-> TRUE, version |-> ParseVersionString(tool_version[1], version).version]
    ELSE [ret |-> FALSE, version |-> version]

\* GetToolVersion: tool_version is what getenv("RDTS_UPDATER_ASSUME_VERSION")
\* returned, version what the caller's VersionInfo held.
GetToolVersion(tool_version, version) ==
    IF tool_version # Unset
    THEN [ret |-> TRUE,
          version |-> IF ParseVersionString(tool_version[1], version).ret
                      THEN ParseVersionString(tool_version[1], version).version
                      ELSE VersionInfo(1, 0, 0, 0)]
    ELSE [ret |-> FALSE, version |-> version]

\* An update loop that looks at the first release only.
UpdateLoopFirstOnly(releases, i, version_to_compare, is_update_available) ==
    IF Len(releases) = 0 THEN is_update_available
    ELSE Compare(releases[1].version, version_to_compare) = kNewer

\* The loop over update_info.releases of CheckForUpdates, with its break.
RECURSIVE UpdateLoop(_, _, _, _)
UpdateLoop(releases, i, version_to_compare, is_update_available) ==
    IF i > Len(releases) THEN is_update_available
    ELSE IF Compare(releases[i].version, version_to_compare) = kNewer THEN TRUE
    ELSE UpdateLoop(releases, i + 1, version_to_compare, FALSE)

\* A FilterCompare that goes on to the filter when the parse has failed.
FilterCompareUnguarded(parsed, filtered, version_to_compare, tool_version) ==
    IF FALSE
    THEN [checked_for_update |-> FALSE,
          update_info |-> UpdateInfo(FALSE, parsed.releases),
          err |-> parsed.err,
          steps |-> <<"ParseJsonString">> \o parsed.ran,
          env |-> <<>>, version_to_compare |-> <<>>]
    ELSE IF ~filtered.may_have_updates
    THEN [checked_for_update |-> TRUE,
          update_info |-> UpdateInfo(FALSE, filtered.releases),
          err |-> parsed.err,
          steps |-> <<"ParseJsonString">> \o parsed.ran \o <<"FilterToCurrentPlatform">>,
          env |-> <<>>, version_to_compare |-> <<>>]
    ELSE [checked_for_update |-> TRUE,
          update_info |-> UpdateInfo(UpdateLoop(filtered.releases, 1, version_to_compare, FALSE),
                                     filtered.releases),
          err |-> parsed.err,
          steps |-> <<"ParseJsonString">> \o parsed.ran
                       \o <<"FilterToCurrentPlatform", "GetToolVersion", "Compare">>,
          env |-> <<tool_version>>, version_to_compare |-> <<version_to_compare>>]

\* CheckForUpdates after ParseJsonString: parsed is what it returned,
\* filtered what FilterToCurrentPlatform makes of the releases, and
\* version_to_compare the reference GetToolVersion leaves.
FilterCompare(parsed, filtered, version_to_compare, tool_version) ==
    IF ~parsed.is_parsed
    THEN [checked_for_update |-> FALSE,
          update_info |-> UpdateInfo(FALSE, parsed.releases),
          err |-> parsed.err,
          steps |-> <<"ParseJsonString">> \o parsed.ran,
          env |-> <<>>, version_to_compare |-> <<>>]
    ELSE IF ~filtered.may_have_updates
    THEN [checked_for_update |-> TRUE,
          update_info |-> UpdateInfo(FALSE, filtered.releases),
          err |-> parsed.err,
          steps |-> <<"ParseJsonString">> \o parsed.ran \o <<"FilterToCurrentPlatform">>,
          env |-> <<>>, version_to_compare |-> <<>>]
    ELSE [checked_for_update |-> TRUE,
          update_info |-> UpdateInfo(UpdateLoop(filtered.releases, 1, version_to_compare, FALSE),
                                     filtered.releases),
          err |-> parsed.err,
          steps |-> <<"ParseJsonString">> \o parsed.ran
                       \o <<"FilterToCurrentPlatform", "GetToolVersion", "Compare">>,
          env |-> <<tool_version>>, version_to_compare |-> <<version_to_compare>>]

\* if (!GetToolVersion(version_to_compare)) version_to_compare = product_version;
\* tool is what GetToolVersion returned and left in version_to_compare.
VersionToCompare(tool, product_version) == IF tool.ret THEN tool.version ELSE product_version

\* CheckForUpdates after ParseJsonString: parsed is what it returned.
FilterParsed(parsed, product_version, tool_version, uninit, current_platform) ==
    FilterCompare(parsed, FilterToCurrentPlatform(parsed.releases, current_platform),
                  VersionToCompare(GetToolVersion(tool_version, uninit.version), product_version),
                  tool_version)

\* CheckForUpdates from "if (checked_for_update)" after the transport
\* succeeded: what it returns, update_info afterwards, the pieces appended to
\* error_message, the steps taken, and the environment variable and
\* version_to_compare (in a sequence) when the comparison is reached.
ParseFilterCompare(loaded_json_contents, product_version, tool_version, uninit, current_platform) ==
    FilterParsed(ParseJsonString(loaded_json_contents, <<>>, uninit), product_version,
                 tool_version, uninit, current_platform)

\* --------------------------------------------------------------- transport

\* LoadJsonFile: fs is the disk.
LoadJsonFile(json_file_path, fs) ==
    IF json_file_path \notin DOMAIN fs
    THEN [is_loaded |-> FALSE, json_string |-> EmptyText,
          err |-> <<"kStringErrorFailedToLoadVersionFile">>]
    ELSE IF fs[json_file_path] = EmptyText
    THEN [is_loaded |-> FALSE, json_string |-> EmptyText,
          err |-> <<"kStringErrorDownloadedAnEmptyVersionFile">>]
    ELSE [is_loaded |-> TRUE, json_string |-> fs[json_file_path], err |-> <<>>]

\* The file name DownloadJsonFile appends to the temp directory.
LocalFileName(json_file_url) ==
    LET slash_position == FindLastOf(json_file_url, {"/", "\\"})
        question == FindLastOf(json_file_url, {"?"})
        end_position == IF question = Npos THEN Len(json_file_url) ELSE question - 1
    IN IF slash_position # Npos
       THEN Substr(json_file_url, slash_position + 1, end_position - slash_position)
       ELSE Substr(json_file_url, 0, end_position)

\* What GetTempDirectory stores in temp_dir when it succeeds.
TempDirectory == <<"/", "t", "m", "p">>

\* GetTempDirectory: only the Windows one looks at the directory.
GetTempDirectory(current_platform, usable) == current_platform # "kWindows" \/ usable

\* The disk after std::remove(path).
Remove(fs, path) == [q \in DOMAIN fs \ {path} |-> fs[q]]

\* The disk after path has been written with text.
Write(fs, path, text) == [q \in DOMAIN fs \cup {path} |-> IF q = path THEN text ELSE fs[q]]

\* FindAssetByName: the position of the asset in asset_list, 0 when it is not
\* found, -1 when get<std::string>() throws first.
RECURSIVE FindAssetByName(_, _, _)
FindAssetByName(items, i, asset_name) ==
    IF i > Len(items) THEN 0
    ELSE IF ~Has(items[i], "name") THEN FindAssetByName(items, i + 1, asset_name)
    ELSE IF ~IsString(At(items[i], "name")) THEN 0 - 1
    ELSE IF At(items[i], "name").s = asset_name THEN i
    ELSE FindAssetByName(items, i + 1, asset_name)

\* FindAssetDownloadUrl: acc.ok is has_asset_download_url, acc.out
\* asset_download_url.
FindAssetDownloadUrl(latest_release, asset_name) ==
    IF ~Has(latest_release, "assets")
    THEN Fail(Acc(<<>>), "kStringErrorMissingAssetsTags")
    ELSE LET items == Items(At(latest_release, "assets"))
             found == FindAssetByName(items, 1, asset_name)
         IN IF found < 0 THEN Throw(Acc(<<>>))
            ELSE IF found = 0 THEN Fail(Acc(<<>>), "kStringErrorAssetNotFound")
            ELSE IF ~Has(items[found], "browser_download_url")
            THEN Fail(Acc(<<>>), "kStringErrorDownloadUrlNotFoundInAsset")
            ELSE IF ~IsString(At(items[found], "browser_download_url")) THEN Throw(Acc(<<>>))
            ELSE Acc(At(items[found], "browser_download_url").s)

\* FindVersionFileUrl without the append of the "message" field.
FindVersionFileUrlDropsMessage(latest_release_api_temp_file, json_file_name, fs) ==
    LET loaded == LoadJsonFile(latest_release_api_temp_file, fs)
        caught == <<"kStringErrorFailedToLoadLatestReleaseInformation", "e.what()">>
    IN IF ~loaded.is_loaded THEN [FailQuietly(Acc(<<>>)) EXCEPT !.err = loaded.err]
       ELSE IF ~IsJson(loaded.json_string)
       THEN [FailQuietly(Acc(<<>>)) EXCEPT !.err = caught]
       ELSE LET latest_release_json_doc == loaded.json_string.doc
                asset == FindAssetDownloadUrl(latest_release_json_doc, json_file_name)
            IN IF asset.thrown THEN [FailQuietly(Acc(<<>>)) EXCEPT !.err = asset.err \o caught]
               ELSE IF asset.ok THEN asset
               ELSE IF ~Has(latest_release_json_doc, "message") THEN asset
               ELSE IF ~IsString(At(latest_release_json_doc, "message"))
               THEN [asset EXCEPT !.err = @ \o caught]
               ELSE asset

\* LoadJsonFromLatestRelease from LoadJsonFile to the call of DownloadJsonFile:
\* acc.ok says that DownloadJsonFile is called, with acc.out as its URL.
FindVersionFileUrl(latest_release_api_temp_file, json_file_name, fs) ==
    LET loaded == LoadJsonFile(latest_release_api_temp_file, fs)
        caught == <<"kStringErrorFailedToLoadLatestReleaseInformation", "e.what()">>
    IN IF ~loaded.is_loaded THEN [FailQuietly(Acc(<<>>)) EXCEPT !.err = loaded.err]
       ELSE IF ~IsJson(loaded.json_string)
       THEN [FailQuietly(Acc(<<>>)) EXCEPT !.err = caught]
       ELSE LET latest_release_json_doc == loaded.json_string.doc
                asset == FindAssetDownloadUrl(latest_release_json_doc, json_file_name)
            IN IF asset.thrown THEN [FailQuietly(Acc(<<>>)) EXCEPT !.err = asset.err \o caught]
               ELSE IF asset.ok THEN asset
               ELSE IF ~Has(latest_release_json_doc, "message") THEN asset
               ELSE IF ~IsString(At(latest_release_json_doc, "message"))
               THEN [asset EXCEPT !.err = @ \o caught]
               ELSE [asset EXCEPT !.err = Append(@, At(latest_release_json_doc, "message").s)]

\* ------------------------------------------------- what the network serves

\* A JSON object without one of its members, and with one member replaced.
Without(j, key) == JObj([k \in DOMAIN j.o \ {key} |-> j.o[k]])
With(j, key, value) == JObj([k \in DOMAIN j.o \cup {key} |-> IF k = key THEN value ELSE j.o[k]])

VersionJson(a, b, c, d) ==
    JObj([Major |-> JNum(a), Minor |-> JNum(b), Patch |-> JNum(c), Build |-> JNum(d)])

PlatformsJson(names) == JArr([i \in 1..Len(names) |-> JStr(names[i])])

InfoLinksJson ==
    JArr(<<JObj([URL |-> JStr("https://gpuopen.com"), Description |-> JStr("Product Page")])>>)

\* A release of a 1.6 manifest.
Release_1_6(version_json, title, platform_names) ==
    JObj([ReleaseVersion |-> version_json,
          ReleaseDate |-> JStr("2024-01-01"),
          ReleaseTitle |-> JStr(title),
          ReleaseType |-> JStr("GA"),
          ReleasePlatforms |-> PlatformsJson(platform_names),
          ReleaseTags |-> JArr(<<JStr("tag")>>),
          InfoPageLinks |-> InfoLinksJson,
          DownloadLinks |-> JArr(<<JObj([URL |-> JStr("u"), PackageType |-> JStr("ZIP"),
                                         PackageName |-> JStr("archive")])>>)])

Manifest_1_6(releases) == JObj([SchemaVersion |-> JStr("1.6"), Releases |-> JArr(releases)])

EveryPlatform == <<"Windows", "Ubuntu", "RHEL", "Darwin">>

GoodRelease == Release_1_6(VersionJson(1, 1, 0, 0), "b", EveryPlatform)
OldRelease == Release_1_6(VersionJson(0, 9, 0, 0), "a", EveryPlatform)

\* 1.6 manifests that parse.
Good_1_6 ==
    { Manifest_1_6(<<OldRelease,
                     Release_1_6(VersionJson(1, 0, 0, 0), "m", EveryPlatform),
                     GoodRelease>>),
      Manifest_1_6(<<OldRelease>>),
      Manifest_1_6(<<Release_1_6(VersionJson(2, 0, 0, 0), "r", <<"RHEL">>)>>),
      Manifest_1_6(<<Release_1_6(VersionJson(2, 0, 0, 0), "w", <<"Windows">>),
                     Release_1_6(VersionJson(0, 5, 0, 0), "u", <<"Ubuntu">>),
                     Release_1_6(VersionJson(1, 0, 5, 0), "wd", <<"Windows", "Darwin">>)>>),
      Manifest_1_6(<<Release_1_6(JObj([Major |-> JNum(1)]), "p", EveryPlatform)>>) }

\* 1.6 manifests that do not.
Bad_1_6 ==
    { JObj([SchemaVersion |-> JStr("1.6")]),
      Manifest_1_6(<<>>),
      Manifest_1_6(<<Without(GoodRelease, "ReleaseDate")>>),
      Manifest_1_6(<<Without(GoodRelease, "DownloadLinks")>>),
      Manifest_1_6(<<GoodRelease, Without(OldRelease, "ReleaseVersion")>>),
      Manifest_1_6(<<Without(OldRelease, "ReleaseTitle"), GoodRelease>>),
      Manifest_1_6(<<With(GoodRelease, "ReleaseType", JStr("Gamma"))>>),
      Manifest_1_6(<<With(GoodRelease, "ReleasePlatforms", PlatformsJson(<<"Ubuntu", "Amiga">>))>>),
      Manifest_1_6(<<With(GoodRelease, "ReleaseVersion", JObj([Name |-> JStr("one")]))>>),
      Manifest_1_6(<<GoodRelease, With(OldRelease, "ReleaseDate", JNum(2024))>>),
      Manifest_1_6(<<JStr("release")>>),
      Manifest_1_6(<<With(GoodRelease, "ReleasePlatforms", JArr(<<>>))>>),
      Manifest_1_6(<<With(GoodRelease, "InfoPageLinks", JArr(<<>>))>>),
      Manifest_1_6(<<With(GoodRelease, "DownloadLinks", JArr(<<>>))>>),
      Manifest_1_6(<<With(GoodRelease, "DownloadLinks",
                          JArr(<<JObj([URL |-> JStr("u"), PackageType |-> JStr("EXE")])>>))>>) }

\* A download link of a 1.5 manifest.
Link_1_5(url, platform_names, release_type) ==
    JObj([URL |-> JStr(url), TargetPlatforms |-> PlatformsJson(platform_names),
          PackageType |-> JStr("ZIP"), ReleaseType |-> JStr(release_type)])

Manifest_1_5(version_json, links) ==
    JObj([SchemaVersion |-> JStr("1.5"),
          ReleaseVersion |-> version_json,
          ReleaseDate |-> JStr("2024-01-01"),
          ReleaseDescription |-> JStr("notes"),
          InfoPageLinks |-> InfoLinksJson,
          DownloadLinks |-> JArr(links)])

GoodManifest_1_5 ==
    Manifest_1_5(VersionJson(1, 1, 0, 0),
                 <<Link_1_5("u1", <<"Windows">>, "GA"), Link_1_5("u2", <<"Ubuntu">>, "GA"),
                   Link_1_5("u3", <<"Windows">>, "GA"), Link_1_5("u4", <<"Ubuntu">>, "Beta")>>)

Good_1_5 ==
    { GoodManifest_1_5,
      Manifest_1_5(JObj([Minor |-> JNum(3)]), <<Link_1_5("u1", EveryPlatform, "GA")>>) }

Bad_1_5 ==
    { Without(GoodManifest_1_5, "ReleaseVersion"),
      Without(GoodManifest_1_5, "DownloadLinks"),
      With(GoodManifest_1_5, "ReleaseVersion", JStr("1.1.0.0")),
      With(GoodManifest_1_5, "ReleaseVersion", JObj([Major |-> JStr("1")])),
      Manifest_1_5(VersionJson(1, 1, 0, 0), <<Link_1_5("u1", <<"Windows">>, "Gamma")>>),
      Manifest_1_5(VersionJson(1, 1, 0, 0), <<Link_1_5("u1", <<>>, "GA")>>) }

\* A 1.3 manifest; version_string is a sequence of characters.
Manifest_1_3(version_string) ==
    JObj([SchemaVersion |-> JStr("1.3"),
          VersionString |-> JStr(version_string),
          ReleaseDate |-> JStr("2024-01-01"),
          Description |-> JStr("notes"),
          InfoPageURL |-> InfoLinksJson,
          DownloadURL |-> JArr(<<JObj([URL |-> JStr("u1"), TargetInfo |-> JStr("Windows_ZIP")]),
                                 JObj([URL |-> JStr("u2"), TargetInfo |-> JStr("Linux_TAR")])>>)])

Good_1_3 ==
    { Manifest_1_3(<<"1", ".", "1", ".", "0", ".", "0">>),
      Manifest_1_3(<<"2", ".", "1">>) }

Bad_1_3 ==
    { Manifest_1_3(<<>>),
      Manifest_1_3(<<"v", "2">>),
      Without(Manifest_1_3(<<"1", ".", "1", ".", "0", ".", "0">>), "VersionString"),
      Without(Manifest_1_3(<<"1", ".", "1", ".", "0", ".", "0">>), "InfoPageURL") }

\* Documents that select none of the three parsers.
NoSchema ==
    { JObj(<<>>),
      JNull,
      JArr(<<JStr("1.6")>>),
      Without(Manifest_1_6(<<GoodRelease>>), "SchemaVersion"),
      With(Manifest_1_6(<<GoodRelease>>), "SchemaVersion", JStr("1.7")),
      With(Manifest_1_6(<<GoodRelease>>), "SchemaVersion", JStr("1.4")),
      With(Manifest_1_6(<<GoodRelease>>), "SchemaVersion", JStr("")),
      With(Manifest_1_6(<<GoodRelease>>), "SchemaVersion", JNum(2)) }

ManifestDocs == Good_1_6 \cup Bad_1_6 \cup Good_1_5 \cup Bad_1_5 \cup Good_1_3 \cup Bad_1_3
                \cup NoSchema

\* What a manifest URL may answer with: a document, nothing, or a page that
\* is no JSON.
ManifestTexts == { JsonText(doc) : doc \in ManifestDocs } \cup {EmptyText, GarbageText}

\* The arguments of the calls: the URLs and the file names.
GitHubUrl ==
    <<"h", "t", "t", "p", "s", ":", "/", "/", "g", "/", "r">> \o kStringGithubReleasesLatest
HttpUrl == <<"h", "t", "t", "p", "s", ":", "/", "/", "h", "/", "d">>
LocalDirectory == <<"d">>

\* Locations that hold one mark of a strategy but not at the place of another:
\* "/releases/latest" without "http" in front, and "http" not at the start.
ReleasesDirectory == LocalDirectory \o kStringGithubReleasesLatest
HttpDirectory == LocalDirectory \o <<"/">> \o kStringHttpPrefix

ManifestName == <<"m">> \o kStringJsonFileExtension
TextName == <<"m", ".", "t", "x", "t">>
BackupName == ManifestName \o <<".", "b", "a", "k">>

\* Where the asset of the latest release is downloaded from.
AssetUrl == <<"h", "t", "t", "p", "s", ":", "/", "/", "g", "/", "a", "/">> \o ManifestName

Asset(name, url) == JObj([name |-> JStr(name), browser_download_url |-> JStr(url)])

GoodLatestRelease ==
    JObj([tag_name |-> JStr("v1.1"),
          assets |-> JArr(<<Asset(<<"r", ".", "z", "i", "p">>, <<"z">>),
                            Asset(ManifestName, AssetUrl)>>)])

\* What the GitHub Release API may answer with.
ReleaseTexts ==
    { JsonText(GoodLatestRelease),
      JsonText(JObj([message |-> JStr("Not Found")])),
      JsonText(JObj([assets |-> JArr(<<Asset(<<"r", ".", "z", "i", "p">>, <<"z">>)>>)])),
      JsonText(JObj([assets |-> JArr(<<JObj([name |-> JStr(ManifestName)])>>)])),
      JsonText(JObj([message |-> JNum(404)])),
      JsonText(JObj([message |-> JStr("rate limit"),
                     assets |-> JArr(<<Asset(<<"r", ".", "z", "i", "p">>, <<"z">>)>>)])),
      JsonText(JObj([message |-> JStr("moved"),
                     assets |-> JArr(<<JObj([name |-> JStr(ManifestName)])>>)])),
      EmptyText,
      GarbageText }

\* The network: every release answer with one manifest, and every manifest
\* with the release that names it.
Worlds ==
    { [release |-> r, manifest |-> JsonText(Manifest_1_6(<<GoodRelease>>))] : r \in ReleaseTexts }
    \cup { [release |-> JsonText(GoodLatestRelease), manifest |-> m] : m \in ManifestTexts }

\* What the helper receives from remote_url.
Served(remote_url) ==
    IF Find(remote_url, kStringGithubReleasesLatest) # Npos THEN remote.release
    ELSE remote.manifest

\* What an earlier run of the product has left in the temp directory.
StaleLatestRelease ==
    JsonText(JObj([tag_name |-> JStr("v0.1"), assets |-> JArr(<<Asset(ManifestName, AssetUrl)>>)]))
StaleManifest == JsonText(Manifest_1_6(<<Release_1_6(VersionJson(0, 1, 0, 0), "stale", EveryPlatform)>>))

LatestReleaseTempFile == TempDirectory \o <<"/">> \o kStringLatestJsonFilename
ManifestTempFile == TempDirectory \o <<"/">> \o ManifestName
LocalManifestFile == LocalDirectory \o <<"/">> \o ManifestName

\* The disk a run of the product may start with.
Disks ==
    { [q \in {} |-> EmptyText],
      [q \in {LocalManifestFile} |-> remote.manifest],
      [q \in {LocalManifestFile, LatestReleaseTempFile, ManifestTempFile} |->
          IF q = LatestReleaseTempFile THEN StaleLatestRelease
          ELSE IF q = ManifestTempFile THEN StaleManifest
          ELSE remote.manifest] }

\* The builds: the platform FilterToCurrentPlatform is compiled for, whether
\* NDEBUG is defined, and whether the temp directory can be used (only the
\* Windows GetTempDirectory looks).
Builds ==
    { [platform |-> p, ndebug |-> TRUE, temp_dir |-> TRUE] :
        p \in {"kWindows", "kUbuntu", "kDarwin", "kUnknown"} }
    \cup { [platform |-> "kUbuntu", ndebug |-> FALSE, temp_dir |-> TRUE],
           [platform |-> "kWindows", ndebug |-> TRUE, temp_dir |-> FALSE] }

Setups == { [build |-> b, remote |-> w] : b \in Builds, w \in Worlds }

\* What RDTS_UPDATER_ASSUME_VERSION may hold.
ToolVersions ==
    { Unset,
      << <<"3", ".", "2", ".", "1", ".", "0">> >>,
      << <<"1", ".", "0", ".", "5", ".", "0", "-", "r", "c">> >>,
      << <<"3", ".", "2">> >>,
      << <<>> >> }

ProductVersions == { VersionInfo(1, 0, 0, 0), VersionInfo(1, 1, 0, 0) }

\* The calls: every URL with the manifest name, and the other names with one
\* product version.
Calls ==
    { [product_version |-> v, latest_releases_url |-> u, json_filename |-> ManifestName] :
        v \in ProductVersions, u \in {GitHubUrl, HttpUrl, LocalDirectory} }
    \cup { [product_version |-> VersionInfo(1, 0, 0, 0), latest_releases_url |-> u,
            json_filename |-> n] :
        u \in {GitHubUrl, HttpUrl, LocalDirectory}, n \in {TextName, BackupName} }
    \cup { [product_version |-> VersionInfo(1, 0, 0, 0), latest_releases_url |-> u,
            json_filename |-> ManifestName] :
        u \in {ReleasesDirectory, HttpDirectory} }

\* ---------------------------------------------------------- CheckForUpdates

\* The locals of a call that has just been entered.
Entered(a) ==
    [product_version |-> a.product_version,
     latest_releases_url |-> a.latest_releases_url,
     json_filename |-> a.json_filename,
     remote_url |-> <<>>,          \* the URL handed to the running helper
     local_file |-> <<>>,          \* the file the running helper is to write
     written |-> <<>>,             \* the files the helpers of this call have written
     loaded |-> <<>>,              \* loaded_json_contents once the transport succeeded
     env |-> <<>>,                 \* what getenv returned, once it has been called
     version_to_compare |-> <<>>]  \* version_to_compare, once it has been set

\* CheckForUpdates returns.
Returns(c, checked_for_update, info, err, steps, fs) ==
    /\ pc' = "returned"
    /\ call' = c
    /\ ret' = IF checked_for_update THEN "true" ELSE "false"
    /\ update_info' = info
    /\ error_message' = err
    /\ log' = steps
    /\ files' = fs

\* CheckForUpdates is inside ExecAndGrabOutput, the helper running.
Waits(where, c, err, steps, fs) ==
    /\ pc' = where
    /\ call' = c
    /\ ret' = "none"
    /\ update_info' = UpdateInfo(FALSE, <<>>)
    /\ error_message' = err
    /\ log' = steps
    /\ files' = fs

\* ExecDownloader up to the launch: was_launched is what ExecAndGrabOutput is
\* going to return.
ExecDownloader(where, c, remote_url, local_file, was_launched, err, steps, fs) ==
    IF ~was_launched
    THEN Returns(c, FALSE, UpdateInfo(FALSE, <<>>),
                 err \o <<"kStringErrorFailedToLaunchVersionFileDownloader",
                          "kStringErrorFailedToLaunchVersionFileDownloader">>,
                 Append(steps, "ExecDownloader"), fs)
    ELSE Waits(where, [c EXCEPT !.remote_url = remote_url, !.local_file = local_file],
               err, Append(steps, "ExecDownloader"), fs)

\* DownloadJsonFile up to the launch of the helper.
DownloadJsonFile(c, json_file_url, err, steps, fs) ==
    IF ~GetTempDirectory(platform, temp_dir)
    THEN Returns(c, FALSE, UpdateInfo(FALSE, <<>>), err, steps, fs)
    ELSE LET local_file == TempDirectory \o <<"/">> \o LocalFileName(json_file_url)
         IN \E was_launched \in BOOLEAN :
               ExecDownloader("DownloadJsonFile", c, json_file_url, local_file, was_launched,
                              err, steps, Remove(fs, local_file))

\* LoadJsonFromLatestRelease up to the launch of the helper.
LoadJsonFromLatestRelease(c, json_file_url, err, steps, fs) ==
    IF ~GetTempDirectory(platform, temp_dir)
    THEN Returns(c, FALSE, UpdateInfo(FALSE, <<>>),
                 Append(err, "kStringErrorUnableToFindTempDirectory"), steps, fs)
    ELSE \E was_launched \in BOOLEAN :
            ExecDownloader("LoadJsonFromLatestRelease", c, json_file_url,
                           TempDirectory \o <<"/">> \o kStringLatestJsonFilename,
                           was_launched, err, steps, fs)

\* CheckForUpdates returns after the transport has succeeded: done is what
\* the rest of the function has made of loaded_json_contents.
ReturnsChecked(c, json_string, done, err, steps, fs) ==
    Returns([c EXCEPT !.loaded = <<json_string>>, !.env = done.env,
                      !.version_to_compare = done.version_to_compare],
            done.checked_for_update, done.update_info, err \o done.err,
            steps \o done.steps, fs)

\* CheckForUpdates once the transport has returned: is_loaded and json_string
\* are what it returned.
AfterTransport(c, is_loaded, json_string, err, steps, fs) ==
    IF ~is_loaded THEN Returns(c, FALSE, UpdateInfo(FALSE, <<>>), err, steps, fs)
    ELSE \E tool_version \in ToolVersions, uninit \in UninitValues :
            ReturnsChecked(c, json_string,
                           ParseFilterCompare(json_string, c.product_version, tool_version,
                                              uninit, platform),
                           err, steps, fs)

\* A CheckForUpdates that looks for "http" before "/releases/latest".
CheckForUpdatesHttpFirst(a) ==
    /\ pc = "idle"
    /\ LET c == Entered(a)
           is_json == RFind(a.json_filename, kStringJsonFileExtension) # Npos
           full == IF a.latest_releases_url = <<>> THEN a.json_filename
                   ELSE a.latest_releases_url \o <<"/">> \o a.json_filename
           local == LoadJsonFile(full, files)
       IN IF ~is_json /\ ~ndebug
          THEN /\ pc' = "aborted"
               /\ call' = c
               /\ ret' = "none"
               /\ update_info' = UpdateInfo(FALSE, <<>>)
               /\ error_message' = <<>>
               /\ log' = <<"assert">>
               /\ files' = files
          ELSE IF ~is_json
          THEN Returns(c, FALSE, UpdateInfo(FALSE, <<>>),
                       <<"kStringErrorUrlMustPointToAJsonFile">>, <<>>, files)
          ELSE IF Find(a.latest_releases_url, kStringHttpPrefix) = 0
          THEN DownloadJsonFile(c, IF a.json_filename = <<>> THEN a.latest_releases_url ELSE full,
                                <<>>, <<>>, files)
          ELSE IF Find(a.latest_releases_url, kStringGithubReleasesLatest) # Npos
          THEN LoadJsonFromLatestRelease(c, a.latest_releases_url, <<>>, <<>>, files)
          ELSE AfterTransport(c, local.is_loaded, local.json_string, local.err,
                              <<"LoadJsonFile">>, files)
    /\ UNCHANGED <<platform, ndebug, remote, temp_dir, arg, res, qt, checks, proc>>

\* The caller (Worker::DoCheckForUpdates) calls CheckForUpdates with a fresh
\* UpdateInfo and an empty error_message; the call runs until it returns, the
\* assert stops the process, or a helper is running.  A run of the product
\* checks once; what earlier runs have left on the disk is in Disks.
CheckForUpdates(a) ==
    /\ pc = "idle"
    /\ LET c == Entered(a)
           is_json == RFind(a.json_filename, kStringJsonFileExtension) # Npos
           full == IF a.latest_releases_url = <<>> THEN a.json_filename
                   ELSE a.latest_releases_url \o <<"/">> \o a.json_filename
           local == LoadJsonFile(full, files)
       IN IF ~is_json /\ ~ndebug
          THEN /\ pc' = "aborted"
               /\ call' = c
               /\ ret' = "none"
               /\ update_info' = UpdateInfo(FALSE, <<>>)
               /\ error_message' = <<>>
               /\ log' = <<"assert">>
               /\ files' = files
          ELSE IF ~is_json
          THEN Returns(c, FALSE, UpdateInfo(FALSE, <<>>),
                       <<"kStringErrorUrlMustPointToAJsonFile">>, <<>>, files)
          ELSE IF Find(a.latest_releases_url, kStringGithubReleasesLatest) # Npos
          THEN LoadJsonFromLatestRelease(c, a.latest_releases_url, <<>>, <<>>, files)
          ELSE IF Find(a.latest_releases_url, kStringHttpPrefix) = 0
          THEN DownloadJsonFile(c, IF a.json_filename = <<>> THEN a.latest_releases_url ELSE full,
                                <<>>, <<>>, files)
          ELSE AfterTransport(c, local.is_loaded, local.json_string, local.err,
                              <<"LoadJsonFile">>, files)
    /\ UNCHANGED <<platform, ndebug, remote, temp_dir, arg, res, qt, checks, proc>>

\* What the helper (rtda) does to the disk before it exits: nothing when it
\* cannot run or cannot create the file, an empty file when the request
\* fails after os.Create, the body of the answer otherwise.
HelperOutcomes == {"untouched", "empty", "written"}

Helped(c, outcome, fs) ==
    CASE outcome = "untouched" -> fs
      [] outcome = "empty" -> Write(fs, c.local_file, EmptyText)
      [] outcome = "written" -> Write(fs, c.local_file, Served(c.remote_url))

\* The helper of LoadJsonFromLatestRelease has exited: the rest of
\* LoadJsonFromLatestRelease up to the next launch.
LatestReleaseFetched(outcome) ==
    /\ pc = "LoadJsonFromLatestRelease"
    /\ LET fs == Helped(call, outcome, files)
           c == IF outcome = "untouched" THEN call
                ELSE [call EXCEPT !.written = Append(@, call.local_file)]
           found == FindVersionFileUrl(call.local_file, call.json_filename, fs)
           steps == Append(log, "LoadJsonFile")
       IN IF found.ok
          THEN DownloadJsonFile(c, found.out, error_message \o found.err, steps, fs)
          ELSE Returns(c, FALSE, UpdateInfo(FALSE, <<>>), error_message \o found.err, steps, fs)
    /\ UNCHANGED <<platform, ndebug, remote, temp_dir, arg, res, qt, checks, proc>>

\* The helper of DownloadJsonFile has exited: LoadJsonFile and the rest of
\* CheckForUpdates.
ManifestFetched(outcome) ==
    /\ pc = "DownloadJsonFile"
    /\ LET fs == Helped(call, outcome, files)
           c == IF outcome = "untouched" THEN call
                ELSE [call EXCEPT !.written = Append(@, call.local_file)]
           loaded == LoadJsonFile(call.local_file, fs)
       IN AfterTransport(c, loaded.is_loaded, loaded.json_string,
                         error_message \o loaded.err, Append(log, "LoadJsonFile"), fs)
    /\ UNCHANGED <<platform, ndebug, remote, temp_dir, arg, res, qt, checks, proc>>

NotApplied == [done |-> FALSE]

\* No ThreadController has been made, and no call runs beside another.
NoThread == [thread |-> "none"]
NoChecks == <<>>
NoProcess == [pc |-> "none"]

Init ==
    /\ \E setup \in Setups :
          /\ platform = setup.build.platform
          /\ ndebug = setup.build.ndebug
          /\ temp_dir = setup.build.temp_dir
          /\ remote = setup.remote
    /\ files \in Disks
    /\ pc = "idle"
    /\ call = <<>>
    /\ update_info = UpdateInfo(FALSE, <<>>)
    /\ error_message = <<>>
    /\ ret = "none"
    /\ log = <<>>
    /\ arg = <<>>
    /\ res = NotApplied
    /\ qt = NoThread
    /\ checks = NoChecks
    /\ proc = NoProcess

Next ==
    \/ \E a \in Calls : CheckForUpdates(a)
    \/ \E outcome \in HelperOutcomes : LatestReleaseFetched(outcome)
    \/ \E outcome \in HelperOutcomes : ManifestFetched(outcome)

Spec == Init /\ [][Next]_vars

\* ----------------------------------- functions applied on their own inputs

\* The state of the call machinery while a function is applied on its own.
NoCall ==
    /\ platform = "kUnknown"
    /\ ndebug = TRUE
    /\ remote = <<>>
    /\ files = <<>>
    /\ temp_dir = TRUE
    /\ pc = "idle"
    /\ call = <<>>
    /\ update_info = UpdateInfo(FALSE, <<>>)
    /\ error_message = <<>>
    /\ ret = "none"
    /\ log = <<>>
    /\ qt = NoThread
    /\ checks = NoChecks
    /\ proc = NoProcess

call_vars == <<platform, ndebug, remote, files, temp_dir, pc, call, update_info,
               error_message, ret, log, qt, checks, proc>>

\* v1.Compare(v2) and v2.Compare(v1) for two versions.
InitCompare ==
    /\ NoCall
    /\ arg \in [this : Versions, other : Versions]
    /\ res = NotApplied

ApplyCompare ==
    /\ ~res.done
    /\ res' = [done |-> TRUE,
               result |-> Compare(arg.this, arg.other),
               reverse |-> Compare(arg.other, arg.this)]
    /\ UNCHANGED <<arg, call_vars>>

SpecCompare == InitCompare /\ [][ApplyCompare]_vars

\* The releases FilterToCurrentPlatform is applied to: what a parser can
\* produce, told apart by their titles.
FilterPlatformLists ==
    { <<"kWindows">>, <<"kUbuntu">>, <<"kDarwin">>, <<"kWindows", "kDarwin">>,
      <<"kUbuntu", "kWindows">> }

FilterReleases ==
    { ReleaseInfo(VersionInfo(1, 0, 0, 0), "2024-01-01", title, platforms,
                  "kGeneralAvailability", <<>>, <<DownloadLink("u", "kZip", "")>>,
                  <<InfoPageLink("i", "d")>>) :
        title \in {"a", "b"}, platforms \in FilterPlatformLists }

SeqsUpTo(S, n) == UNION { [1..k -> S] : k \in 0..n }

InitFilter ==
    /\ NoCall
    /\ arg \in [releases : SeqsUpTo(FilterReleases, MaxReleases),
                current_platform : {"kWindows", "kUbuntu", "kDarwin", "kUnknown"}]
    /\ res = NotApplied

ApplyFilter ==
    /\ ~res.done
    /\ res' = [done |-> TRUE,
               out |-> FilterToCurrentPlatform(arg.releases, arg.current_platform)]
    /\ UNCHANGED <<arg, call_vars>>

SpecFilter == InitFilter /\ [][ApplyFilter]_vars

\* The 1.5 documents ConvertJsonSchema_1_5_To_1_6 is applied to: the package at
\* position i has the URL PackageUrls[i].
PackageUrls == <<"u1", "u2", "u3", "u4", "u5">>

PackageShapes ==
    [target_platforms : { <<"kWindows">>, <<"kUbuntu">>, <<"kWindows", "kUbuntu">>,
                          <<"kUbuntu", "kWindows">> },
     release_type : {"kGeneralAvailability", "kBeta"},
     package_type : {"kZip", "kMsi"}]

PackagesOf(shapes) ==
    [i \in 1..Len(shapes) |->
        UpdatePackage_1_5(PackageUrls[i], shapes[i].package_type, shapes[i].release_type,
                          shapes[i].target_platforms)]

SharedInfoLinks == <<InfoPageLink("https://gpuopen.com", "Product Page")>>

InitConvert ==
    /\ NoCall
    /\ \E shapes \in SeqsUpTo(PackageShapes, MaxPackages) :
          arg = UpdateInfo_1_5(VersionInfo(1, 2, 0, 0), "2024-01-01", "notes",
                               PackagesOf(shapes), SharedInfoLinks)
    /\ res = NotApplied

ApplyConvert ==
    /\ ~res.done
    /\ res' = [done |-> TRUE, releases |-> ConvertJsonSchema_1_5_To_1_6(arg, <<>>)]
    /\ UNCHANGED <<arg, call_vars>>

SpecConvert == InitConvert /\ [][ApplyConvert]_vars

\* ------------------------------------------------------------------ claims

\* The lexicographic rank of a version among those with components below base.
Rank(v, base) == ((v.major * base + v.minor) * base + v.patch) * base + v.build

LexCompare(v1, v2) ==
    LET base == MaxVer + 2
    IN IF Rank(v1, base) > Rank(v2, base) THEN kNewer
       ELSE IF Rank(v1, base) < Rank(v2, base) THEN kOlder
       ELSE kEqual

\* C4: Compare is antisymmetric (Newer one way exactly when Older the other
\* way), is Equal exactly when all four components are equal, and agrees with
\* the lexicographic order on (major, minor, patch, build).
CompareIsLexicographic ==
    res.done =>
        /\ (res.result = kNewer) <=> (res.reverse = kOlder)
        /\ (res.result = kOlder) <=> (res.reverse = kNewer)
        /\ (res.result = kEqual) <=> (arg.this = arg.other)
        /\ res.result = LexCompare(arg.this, arg.other)

\* C4 witness: two versions that differ only in build have been compared.
CompareDecidedByBuild ==
    /\ res.done
    /\ arg.this.major = arg.other.major
    /\ arg.this.minor = arg.other.minor
    /\ arg.this.patch = arg.other.patch
    /\ arg.this.build > arg.other.build
    /\ res.result = kNewer
    /\ res.reverse = kOlder

\* The positions of the releases that name the platform, in increasing order.
RECURSIVE Ascending(_)
Ascending(S) ==
    IF S = {} THEN <<>>
    ELSE LET least == CHOOSE i \in S : \A j \in S : i <= j
         IN <<least>> \o Ascending(S \ {least})

PositionsFor(releases, p) ==
    Ascending({ i \in 1..Len(releases) :
                  p \in { releases[i].target_platforms[k] :
                            k \in 1..Len(releases[i].target_platforms) } })

\* C6: for a platform other than Unknown the releases left are exactly those
\* that name the platform, in their original order; for Unknown the list is
\* unchanged.
FilterKeepsPlatformSubsequence ==
    res.done =>
        IF arg.current_platform = "kUnknown"
        THEN res.out.releases = arg.releases
        ELSE LET at == PositionsFor(arg.releases, arg.current_platform)
             IN res.out.releases = [k \in 1..Len(at) |-> arg.releases[at[k]]]

\* C6 witness: releases for {Windows}, {Ubuntu}, {Windows, Darwin} filtered on
\* Windows leave the first and the third.
FilterExampleReached ==
    /\ res.done
    /\ arg.current_platform = "kWindows"
    /\ Len(arg.releases) = 3
    /\ arg.releases[1].target_platforms = <<"kWindows">>
    /\ arg.releases[2].target_platforms = <<"kUbuntu">>
    /\ arg.releases[3].target_platforms = <<"kWindows", "kDarwin">>
    /\ arg.releases[1].title # arg.releases[3].title
    /\ res.out.releases = <<arg.releases[1], arg.releases[3]>>

PairOf(x) == <<x.target_platforms, x.release_type>>
ReleasePair(r) == <<r.target_platforms, r.type>>

FirstWith(packages, pair) ==
    CHOOSE i \in 1..Len(packages) :
        /\ PairOf(packages[i]) = pair
        /\ \A j \in 1..(i - 1) : PairOf(packages[j]) # pair

LinksOfPair(packages, pair) ==
    LET at == Ascending({ i \in 1..Len(packages) : PairOf(packages[i]) = pair })
    IN [k \in 1..Len(at) |->
           DownloadLink(packages[at[k]].url, packages[at[k]].package_type, "")]

\* C7: the upgrade into an empty model yields one release per distinct
\* (platform list, release type) pair, in first-occurrence order of the pairs,
\* and the links of a release are those of the packages of its pair, in
\* package order.
ConvertGroupsByPair ==
    res.done =>
        LET packages == arg.available_packages
            out == res.releases
        IN /\ { ReleasePair(out[i]) : i \in 1..Len(out) }
                 = { PairOf(packages[i]) : i \in 1..Len(packages) }
           /\ \A i, j \in 1..Len(out) :
                 i < j => /\ ReleasePair(out[i]) # ReleasePair(out[j])
                          /\ FirstWith(packages, ReleasePair(out[i]))
                               < FirstWith(packages, ReleasePair(out[j]))
           /\ \A i \in 1..Len(out) :
                 out[i].download_links = LinksOfPair(packages, ReleasePair(out[i]))

\* C7 witness: three packages, the first and third of one pair and the second
\* with the same platforms and another release type, became two releases.
ConvertMergedAndSplit ==
    /\ res.done
    /\ Len(arg.available_packages) = 3
    /\ PairOf(arg.available_packages[1]) = PairOf(arg.available_packages[3])
    /\ arg.available_packages[1].target_platforms = arg.available_packages[2].target_platforms
    /\ arg.available_packages[1].release_type # arg.available_packages[2].release_type
    /\ Len(res.releases) = 2
    /\ Len(res.releases[1].download_links) = 2
    /\ res.releases[1].download_links[1].url = "u1"
    /\ res.releases[1].download_links[2].url = "u3"

\* ------------------------------------------------ claims about the whole call

Returned == pc = "returned"

TransportSteps == {"ExecDownloader", "LoadJsonFile"}

Pieces(err) == { err[i] : i \in 1..Len(err) }

\* C1: whenever CheckForUpdates returns false, it has appended at least one
\* non-empty message to error_message during the call.
FalseReturnHasMessage ==
    (Returned /\ ret = "false") => \E i \in 1..Len(error_message) : error_message[i] # ""

\* C2: when transport and parsing succeed, CheckForUpdates returns true, and
\* is_update_available is true exactly when a release that survived the
\* platform filter is Newer than the reference version; with no survivor the
\* call returns true with the flag false.
ParsedLoaded ==
    /\ call.loaded # <<>>
    /\ \A uninit \in UninitValues : ParseJsonString(call.loaded[1], <<>>, uninit).is_parsed

UpdateFlagIsNewerSurvivor ==
    (Returned /\ ParsedLoaded) =>
        /\ ret = "true"
        /\ update_info.releases # <<>> => call.version_to_compare # <<>>
        /\ update_info.is_update_available =
              (\E i \in 1..Len(update_info.releases) :
                  Compare(update_info.releases[i].version, call.version_to_compare[1]) = kNewer)

\* The example of C2: releases 0.9.0.0, 1.0.0.0, 1.1.0.0 against 1.0.0.0.
UpdateFlagExample ==
    /\ Returned
    /\ ret = "true"
    /\ [i \in 1..Len(update_info.releases) |-> update_info.releases[i].version]
          = <<VersionInfo(0, 9, 0, 0), VersionInfo(1, 0, 0, 0), VersionInfo(1, 1, 0, 0)>>
    /\ call.version_to_compare = <<VersionInfo(1, 0, 0, 0)>>
    /\ update_info.is_update_available

\* C3: when CheckForUpdates, called with an empty UpdateInfo, returns false,
\* the UpdateInfo is in its default state: flag false, no releases.
FalseReturnLeavesDefault ==
    (Returned /\ ret = "false") => update_info = UpdateInfo(FALSE, <<>>)

\* What C5 expects of a value of the variable: it starts with four numbers
\* (of one digit each in this model) separated by dots.
LeadsWithVersion(s) ==
    /\ Len(s) >= 7
    /\ \A k \in {1, 3, 5, 7} : s[k] \in Digits
    /\ \A k \in {2, 4, 6} : s[k] = "."
    /\ Len(s) > 7 => s[8] \notin Digits

ExpectedReference(env, product_version) ==
    IF env = Unset THEN product_version
    ELSE IF LeadsWithVersion(env[1])
    THEN VersionInfo(DigitValue(env[1][1]), DigitValue(env[1][3]), DigitValue(env[1][5]),
                     DigitValue(env[1][7]))
    ELSE VersionInfo(1, 0, 0, 0)

SchemaParsers == {"ParseJsonSchema_1_3", "ParseJsonSchema_1_5", "ParseJsonSchema_1_6"}

RejectedWith(message) ==
    /\ ret = "false"
    /\ message \in Pieces(error_message)
    /\ Pieces(log) \cap SchemaParsers = {}

\* C8: a manifest without a top-level SchemaVersion fails with the
\* missing-SchemaVersion message, one whose SchemaVersion is any value other
\* than "1.3", "1.5" or "1.6" fails with the unsupported-schema-version
\* message; CheckForUpdates returns false and no schema parser runs.
DispatchRejectsOtherSchemas ==
    (Returned /\ call.loaded # <<>> /\ IsJson(call.loaded[1])) =>
        LET json_doc == call.loaded[1].doc
        IN IF ~Has(json_doc, "SchemaVersion")
           THEN RejectedWith("kStringErrorVersionFileIsMissingTheSchemaVersionEntry")
           ELSE At(json_doc, "SchemaVersion") \notin {JStr("1.3"), JStr("1.5"), JStr("1.6")}
                    => RejectedWith("kStringErrorUnsupportedSchemaVersion")

EndsWith(s, suffix) ==
    Len(s) >= Len(suffix) /\ SubSeq(s, Len(s) - Len(suffix) + 1, Len(s)) = suffix

\* C9: for a file name that does not end in ".json" the call returns false
\* with the must-point-to-a-JSON-file message and takes no transport step.
OtherNamesRejectedBeforeTransport ==
    (pc # "idle" /\ ~EndsWith(call.json_filename, kStringJsonFileExtension)) =>
        /\ Returned
        /\ ret = "false"
        /\ "kStringErrorUrlMustPointToAJsonFile" \in Pieces(error_message)
        /\ Pieces(log) \cap TransportSteps = {}

\* The file at path holds content, and a helper of this call has written it.
Produced(path) ==
    /\ path \in Pieces(call.written)
    /\ path \in DOMAIN files
    /\ files[path] # EmptyText

\* Every file the strategy of the call reads has materialized.
Materialized ==
    IF Find(call.latest_releases_url, kStringGithubReleasesLatest) # Npos
    THEN /\ Produced(LatestReleaseTempFile)
         /\ call.local_file # LatestReleaseTempFile
         /\ Produced(call.local_file)
    ELSE IF Find(call.latest_releases_url, kStringHttpPrefix) = 0
    THEN Produced(call.local_file)
    ELSE LET full_path == call.latest_releases_url \o <<"/">> \o call.json_filename
         IN full_path \in DOMAIN files /\ files[full_path] # EmptyText

\* C10: in each strategy, when the file that should hold the fetched content
\* was not produced by this call's fetch, or is empty, the check fails; what
\* an earlier run left in the temp directory is never accepted.  (That a
\* failed check carries a message is C1.)
UnfetchedContentIsNeverAccepted ==
    (Returned /\ ~Materialized) => ret = "false"

\* C11: no input makes CheckForUpdates fail an assertion: the process is
\* never stopped by an assert of the call chain, every error ends in a normal
\* return.
CheckNeverAborts == pc # "aborted"

\* ------------------------------------------- SplitVersionString_1_5 applied

RELEASEVERSION_PARTS == {"Major", "Minor", "Patch", "Build"}

\* The ReleaseVersion objects: any of the four sub-fields, each a number.
ReleaseVersionObjects ==
    UNION { { JObj([k \in present |-> JNum(value[k])]) : value \in [present -> 0..MaxVer] } :
            present \in SUBSET RELEASEVERSION_PARTS }

\* SplitVersionString_1_5 as the parsers call it: version_info is the
\* version member of a local that has no initializer.
InitSplit_1_5 ==
    /\ NoCall
    /\ arg \in [json_doc : ReleaseVersionObjects,
                version_info : { u.version : u \in UninitValues }]
    /\ res = NotApplied

ApplySplit_1_5 ==
    /\ ~res.done
    /\ res' = [done |-> TRUE, split |-> SplitVersionString_1_5(arg.json_doc, arg.version_info)]
    /\ UNCHANGED <<arg, call_vars>>

SpecSplit_1_5 == InitSplit_1_5 /\ [][ApplySplit_1_5]_vars

\* The component the claim expects for a sub-field: its number, 0 when absent.
ExpectedPart(json_doc, key) == IF Has(json_doc, key) THEN At(json_doc, key).n ELSE 0

\* C16: a ReleaseVersion object with at least one of Major, Minor, Patch,
\* Build parses, and every component whose sub-field is absent is 0 in the
\* resulting version; parsing fails with the invalid-version message only
\* when none of the four is present.
AbsentVersionPartsAreZero ==
    res.done =>
        IF \A key \in RELEASEVERSION_PARTS : ~Has(arg.json_doc, key)
        THEN ~res.split.ok /\ res.split.err = <<"kStringErrorInvalidVersionNumberProvided">>
        ELSE /\ res.split.ok
             /\ ~res.split.thrown
             /\ res.split.out = VersionInfo(ExpectedPart(arg.json_doc, "Major"),
                                            ExpectedPart(arg.json_doc, "Minor"),
                                            ExpectedPart(arg.json_doc, "Patch"),
                                            ExpectedPart(arg.json_doc, "Build"))

\* ------------------------------------------- SplitVersionString_1_3 applied

MaxVersionLen == 4

VersionChars == {"2", "3", ".", "x"}

\* The VersionString values: every short string of digits, dots and another
\* character, and some longer ones.
VersionStrings ==
    SeqsUpTo(VersionChars, MaxVersionLen)
    \cup { <<"1", ".", "2", ".", "3", ".", "4">>,
           <<"1", ".", "2", ".", "3", ".", "4", ".", "5">>,
           <<"1", "0", ".", "2", "0">>,
           <<"1", ".", "0", ".", "5", ".", "0", "-", "r", "c">> }

\* SplitVersionString_1_3 as ParseJsonSchema_1_3 calls it: version_info is
\* the version member of a local that has no initializer.
InitSplit_1_3 ==
    /\ NoCall
    /\ arg \in [version : VersionStrings, version_info : { u.version : u \in UninitValues }]
    /\ res = NotApplied

ApplySplit_1_3 ==
    /\ ~res.done
    /\ res' = [done |-> TRUE, split |-> SplitVersionString_1_3(arg.version, arg.version_info)]
    /\ UNCHANGED <<arg, call_vars>>

SpecSplit_1_3 == InitSplit_1_3 /\ [][ApplySplit_1_3]_vars

\* The pieces of s between its dots.
RECURSIVE DotSeparated(_, _, _)
DotSeparated(s, i, piece) ==
    IF i > Len(s) THEN <<piece>>
    ELSE IF s[i] = "." THEN <<piece>> \o DotSeparated(s, i + 1, <<>>)
    ELSE DotSeparated(s, i + 1, Append(piece, s[i]))

\* The digits a piece starts with.
RECURSIVE LeadingDigits(_)
LeadingDigits(piece) ==
    IF piece = <<>> \/ Head(piece) \notin Digits THEN <<>>
    ELSE <<Head(piece)>> \o LeadingDigits(Tail(piece))

RECURSIVE NumberOf(_)
NumberOf(digits) ==
    IF digits = <<>> THEN 0
    ELSE NumberOf(SubSeq(digits, 1, Len(digits) - 1)) * 10 + DigitValue(digits[Len(digits)])

\* The leading unsigned components of the pieces from the k-th on, four at most.
RECURSIVE LeadingComponents(_, _, _)
LeadingComponents(pieces, k, found) ==
    IF k > Len(pieces) \/ found = 4 \/ LeadingDigits(pieces[k]) = <<>> THEN <<>>
    ELSE <<NumberOf(LeadingDigits(pieces[k]))>>
         \o (IF LeadingDigits(pieces[k]) = pieces[k]
             THEN LeadingComponents(pieces, k + 1, found + 1) ELSE <<>>)

ZeroPadded(components) ==
    VersionInfo(IF Len(components) >= 1 THEN components[1] ELSE 0,
                IF Len(components) >= 2 THEN components[2] ELSE 0,
                IF Len(components) >= 3 THEN components[3] ELSE 0,
                IF Len(components) >= 4 THEN components[4] ELSE 0)

\* C17: a VersionString with 1 to 4 leading dot-separated unsigned components
\* parses to the version made of them, the missing trailing components being
\* 0; an empty VersionString, or one from which no component can be scanned,
\* makes the parse fail.
VersionStringHasLeadingParts ==
    res.done =>
        IF LeadingComponents(DotSeparated(arg.version, 1, <<>>), 1, 0) = <<>>
        THEN ~res.split.ok
        ELSE /\ res.split.ok
             /\ res.split.out
                   = ZeroPadded(LeadingComponents(DotSeparated(arg.version, 1, <<>>), 1, 0))

\* "2.3" has given {2,3,0,0}.
VersionStringTwoThree ==
    /\ res.done
    /\ arg.version = <<"2", ".", "3">>
    /\ res.split.ok
    /\ res.split.out = VersionInfo(2, 3, 0, 0)

\* ------------------------------------- the local file name of DownloadJsonFile

MaxUrlLen == 4

UrlChars == {"a", "b", "/", "\\", "?"}

\* The URLs DownloadJsonFile may be given: the location with the manifest
\* name, or whatever browser_download_url holds.
DownloadUrls == SeqsUpTo(UrlChars, MaxUrlLen)

InitLocalFileName ==
    /\ NoCall
    /\ arg \in [json_file_url : DownloadUrls]
    /\ res = NotApplied

ApplyLocalFileName ==
    /\ ~res.done
    /\ res' = [done |-> TRUE, local_file_name |-> LocalFileName(arg.json_file_url)]
    /\ UNCHANGED <<arg, call_vars>>

SpecLocalFileName == InitLocalFileName /\ [][ApplyLocalFileName]_vars

\* The characters of s after the last one that is in chars (all of s when
\* there is none).
RECURSIVE AfterLast(_, _)
AfterLast(s, chars) ==
    IF s = <<>> \/ s[Len(s)] \in chars THEN <<>>
    ELSE Append(AfterLast(SubSeq(s, 1, Len(s) - 1), chars), s[Len(s)])

\* The characters of s before its last "?" (all of s when there is none).
RECURSIVE BeforeQuery(_)
BeforeQuery(s) ==
    IF "?" \notin { s[i] : i \in 1..Len(s) } THEN s
    ELSE IF s[Len(s)] = "?" THEN SubSeq(s, 1, Len(s) - 1)
    ELSE BeforeQuery(SubSeq(s, 1, Len(s) - 1))

\* C19: the local temp file name is the URL's last path segment, the
\* characters after the final '/' or '\' (the whole URL if there is none),
\* cut off immediately before the '?' of a query string that follows: no
\* character before the '?' is dropped and none of the query is included.
LocalFileNameIsLastSegment ==
    res.done =>
        res.local_file_name = BeforeQuery(AfterLast(arg.json_file_url, {"/", "\\"}))

\* How often step occurs in steps.
Count(steps, step) == Cardinality({ i \in 1..Len(steps) : steps[i] = step })

Contains(s, pat) == \E i \in 0..(Len(s) - Len(pat)) : SubSeq(s, i + 1, i + Len(pat)) = pat

StartsWith(s, pat) == Len(s) >= Len(pat) /\ SubSeq(s, 1, Len(pat)) = pat

\* The call is under way or has returned, and its file name has let it pass.
Running == pc \notin {"idle", "aborted"}

\* C18: one transport strategy is used per check, chosen from the location
\* alone: the GitHub indirection when it contains "/releases/latest" anywhere,
\* otherwise the direct download when it starts with "http", otherwise the
\* local read.  The helper is never launched for a local path, and a location
\* with "/releases/latest" never takes the direct or the local path.
StrategyFollowsLocation ==
    Running =>
        IF Contains(call.latest_releases_url, <<"/", "r", "e", "l", "e", "a", "s", "e", "s",
                                                "/", "l", "a", "t", "e", "s", "t">>)
        THEN /\ log # <<>> => log[1] = "ExecDownloader"
             /\ pc = "LoadJsonFromLatestRelease" =>
                    /\ call.remote_url = call.latest_releases_url
                    /\ Count(log, "ExecDownloader") = 1
             /\ pc = "DownloadJsonFile" => Count(log, "ExecDownloader") = 2
        ELSE IF StartsWith(call.latest_releases_url, <<"h", "t", "t", "p">>)
        THEN /\ pc # "LoadJsonFromLatestRelease"
             /\ log # <<>> => log[1] = "ExecDownloader"
             /\ Count(log, "ExecDownloader") <= 1
             /\ pc = "DownloadJsonFile" =>
                    call.remote_url = call.latest_releases_url \o <<"/">> \o call.json_filename
        ELSE /\ pc = "returned"
             /\ Count(log, "ExecDownloader") = 0
             /\ log # <<>> => log[1] = "LoadJsonFile"

\* A location that contains "/releases/latest" and does not start with
\* "http" has taken the GitHub indirection.
StrategyPrecedenceReached ==
    /\ pc = "LoadJsonFromLatestRelease"
    /\ call.remote_url = call.latest_releases_url
    /\ ~StartsWith(call.latest_releases_url, <<"h", "t", "t", "p">>)

\* The stage a step belongs to: transport, parse (with the upgrade), platform
\* filter, version comparison.
StageOf(step) ==
    CASE step \in {"ExecDownloader", "LoadJsonFile"} -> 1
      [] step \in {"ParseJsonString", "ParseJsonSchema_1_3", "ParseJsonSchema_1_5",
                   "ParseJsonSchema_1_6", "ConvertJsonSchema_1_5_To_1_6"} -> 2
      [] step = "FilterToCurrentPlatform" -> 3
      [] step \in {"GetToolVersion", "Compare"} -> 4

\* The helper launches the strategy of the location allows.
LaunchesAllowed(latest_releases_url) ==
    IF Contains(latest_releases_url, kStringGithubReleasesLatest) THEN 2
    ELSE IF StartsWith(latest_releases_url, kStringHttpPrefix) THEN 1
    ELSE 0

\* C20: within one call the stages run at most once each and in the order
\* transport, parse (with the upgrade), platform filter, version comparison;
\* a stage runs only if every earlier one succeeded and nothing is retried:
\* the helper is launched at most twice in the GitHub strategy (the second
\* time only after the asset URL was found), at most once in the direct
\* strategy, and a failure ends the check.
StagesRunOnceInOrder ==
    Running =>
        /\ \A i, j \in 1..Len(log) : i < j => StageOf(log[i]) <= StageOf(log[j])
        /\ \A step \in {"ParseJsonString", "ParseJsonSchema_1_3", "ParseJsonSchema_1_5",
                        "ParseJsonSchema_1_6", "ConvertJsonSchema_1_5_To_1_6",
                        "FilterToCurrentPlatform", "GetToolVersion", "Compare"} :
              Count(log, step) <= 1
        /\ Count(log, "ExecDownloader") <= LaunchesAllowed(call.latest_releases_url)
        /\ Count(log, "LoadJsonFile") <= 1 + Count(log, "ExecDownloader")
        /\ Count(log, "ExecDownloader") = 2 =>
              FindVersionFileUrl(LatestReleaseTempFile, call.json_filename, files).ok
        /\ Count(log, "ParseJsonString") = 1 =>
              /\ call.loaded # <<>>
              /\ call.loaded[1] # EmptyText
        /\ Count(log, "FilterToCurrentPlatform") = 1 =>
              \E uninit \in UninitValues : ParseJsonString(call.loaded[1], <<>>, uninit).is_parsed
        /\ Count(log, "Compare") = 1 =>
              \/ platform = "kUnknown"
              \/ /\ update_info.releases # <<>>
                 /\ \A i \in 1..Len(update_info.releases) :
                       platform \in Pieces(update_info.releases[i].target_platforms)
        /\ (Returned /\ ret = "false") => Count(log, "Compare") = 0

\* The GitHub strategy has run every stage: two launches, then the parse,
\* the filter and the comparison.
EveryStageRan ==
    /\ Returned
    /\ ret = "true"
    /\ Count(log, "ExecDownloader") = 2
    /\ Count(log, "Compare") = 1

\* ------------------------------------------------------- ThreadController

\* How many times the application calls StartCheckForUpdates.
MaxChecks == 2

\* The variables a step of the ThreadController leaves alone.
beside_qt == <<platform, ndebug, remote, files, temp_dir, pc, call, update_info,
               error_message, ret, log, arg, res, checks, proc>>

\* What a check hands to ResultReady: CheckForUpdates returned true and
\* filled update_info, or returned false.
CheckResults ==
    { [was_check_successful |-> TRUE, update_info |-> "update_info", error_message |-> ""],
      [was_check_successful |-> FALSE, update_info |-> "", error_message |-> "error_message"] }

\* The constructor: was_cancelled_ is false, the worker lives in thread_, and
\* thread_ has been started (isRunning() is true from here until the thread
\* has finished).  The application has started no check.
InitThread ==
    /\ platform = "kUnknown"
    /\ ndebug = TRUE
    /\ remote = <<>>
    /\ files = <<>>
    /\ temp_dir = TRUE
    /\ pc = "idle"
    /\ call = <<>>
    /\ update_info = UpdateInfo(FALSE, <<>>)
    /\ error_message = <<>>
    /\ ret = "none"
    /\ log = <<>>
    /\ arg = <<>>
    /\ res = NotApplied
    /\ checks = NoChecks
    /\ proc = NoProcess
    /\ qt = [thread |-> "running",      \* thread_: "running" or "finished"
             exit |-> FALSE,            \* thread_.quit() has been called
             was_cancelled_ |-> FALSE,
             posted |-> <<>>,           \* DoCheckForUpdates calls queued to the worker
             worker |-> "exec",         \* where the worker thread is
             check |-> 0,               \* the check the worker is running
             launches |-> 0,            \* the helpers that check has launched
             cancel_signal |-> FALSE,   \* the local of ExecDownloader
             helper |-> "none",         \* the rtda process
             ready |-> <<>>,            \* ResultReady calls queued to the controller
             returned |-> <<>>,         \* what the checks have handed to ResultReady
             signals |-> <<>>,          \* what the application has been sent
             started |-> 0,             \* the checks the application has started
             cancelled |-> {},          \* the checks it has asked to cancel
             cancel_called |-> FALSE,   \* CancelCheckForUpdates has been called
             cancelled_in_wait |-> FALSE] \* ... while the helper of the check was running

\* The checks whose signal the application has not received.
Pending == { k \in 1..qt.started : \A i \in 1..Len(qt.signals) : qt.signals[i].check # k }

\* StartCheckForUpdates: the call is queued to the worker; once the thread
\* has finished the worker is gone and nothing receives the signal.  The
\* application does not start a check on a controller it has cancelled ("the
\* thread is no longer useable and should be deleted").
StartCheckForUpdates ==
    /\ qt.started < MaxChecks
    /\ ~qt.cancel_called
    /\ qt' = [qt EXCEPT !.was_cancelled_ = FALSE,
                        !.started = @ + 1,
                        !.posted = IF qt.thread = "running" THEN Append(@, qt.started + 1) ELSE @]
    /\ UNCHANGED beside_qt

\* CancelCheckForUpdates, called for a check that is pending.
CancelCheckForUpdates ==
    /\ Pending # {}
    /\ qt' = [qt EXCEPT !.was_cancelled_ = IF qt.thread = "running" THEN TRUE ELSE @,
                        !.exit = IF qt.thread = "running" THEN TRUE ELSE @,
                        !.cancelled = @ \cup Pending,
                        !.cancel_called = TRUE,
                        !.cancelled_in_wait = @ \/ qt.worker = "ExecAndGrabOutput"]
    /\ UNCHANGED beside_qt

\* The event loop of the worker thread delivers a queued call to
\* Worker::DoCheckForUpdates.  (A call that was posted before the loop sees
\* the exit request may still be delivered.)
DoCheckForUpdates ==
    /\ qt.thread = "running"
    /\ qt.worker = "exec"
    /\ qt.posted # <<>>
    /\ qt' = [qt EXCEPT !.worker = "CheckForUpdates",
                        !.check = Head(qt.posted),
                        !.launches = 0,
                        !.posted = Tail(@)]
    /\ UNCHANGED beside_qt

\* QThread::exec() returns after quit(): the thread finishes, the worker is
\* deleted and the calls still queued to it are dropped.
ThreadExits ==
    /\ qt.thread = "running"
    /\ qt.worker = "exec"
    /\ qt.exit
    /\ qt' = [qt EXCEPT !.thread = "finished", !.posted = <<>>]
    /\ UNCHANGED beside_qt

\* ExecDownloader: cancel_signal is a local set to false, the helper is
\* launched and ExecAndGrabOutput waits for it.
LaunchHelper ==
    /\ qt.worker = "CheckForUpdates"
    /\ qt.launches < 2
    /\ qt' = [qt EXCEPT !.worker = "ExecAndGrabOutput",
                        !.cancel_signal = FALSE,
                        !.helper = "running",
                        !.launches = @ + 1]
    /\ UNCHANGED beside_qt

\* The helper exits on its own.
HelperExits ==
    /\ qt.helper = "running"
    /\ qt' = [qt EXCEPT !.helper = "exited"]
    /\ UNCHANGED beside_qt

\* A poll of the wait loop of ExecAndGrabOutput that ends the wait: the
\* helper is terminated when cancel_signal is set, otherwise it has exited.
WaitEnds ==
    /\ qt.worker = "ExecAndGrabOutput"
    /\ qt.cancel_signal \/ qt.helper = "exited"
    /\ qt' = [qt EXCEPT !.worker = "CheckForUpdates",
                        !.helper = IF qt.cancel_signal THEN "terminated" ELSE "none"]
    /\ UNCHANGED beside_qt

\* CheckForUpdates returns and DoCheckForUpdates emits ResultReady, which is
\* queued to the controller.
ResultReady(update_check_results) ==
    /\ qt.worker = "CheckForUpdates"
    /\ qt' = [qt EXCEPT !.worker = "exec",
                        !.ready = Append(@, [check |-> qt.check,
                                             results |-> update_check_results]),
                        !.returned = Append(@, [check |-> qt.check,
                                                results |-> update_check_results])]
    /\ UNCHANGED beside_qt

\* A ThreadFinished that never reports a completed check.
ThreadFinishedAlwaysCancelled ==
    /\ qt.ready # <<>>
    /\ qt' = [qt EXCEPT !.ready = Tail(@),
                        !.signals = Append(@, [signal |-> "CheckForUpdatesCancelled",
                                               check |-> Head(qt.ready).check])]
    /\ UNCHANGED beside_qt

\* The event loop of the application delivers a queued ResultReady to
\* ThreadController::ThreadFinished.
ThreadFinished ==
    /\ qt.ready # <<>>
    /\ qt' = [qt EXCEPT !.ready = Tail(@),
                        !.signals = Append(@,
                            IF qt.was_cancelled_
                            THEN [signal |-> "CheckForUpdatesCancelled",
                                  check |-> Head(qt.ready).check]
                            ELSE [signal |-> "CheckForUpdatesComplete",
                                  check |-> Head(qt.ready).check,
                                  results |-> Head(qt.ready).results])]
    /\ UNCHANGED beside_qt

NextThread ==
    \/ StartCheckForUpdates
    \/ CancelCheckForUpdates
    \/ DoCheckForUpdates
    \/ ThreadExits
    \/ LaunchHelper
    \/ HelperExits
    \/ WaitEnds
    \/ \E update_check_results \in CheckResults : ResultReady(update_check_results)
    \/ ThreadFinished

SpecThread == InitThread /\ [][NextThread]_vars

\* The threads are scheduled, the event loops run, the helper exits and the
\* check returns.
LiveThread ==
    /\ SpecThread
    /\ WF_vars(DoCheckForUpdates)
    /\ WF_vars(ThreadExits)
    /\ WF_vars(HelperExits)
    /\ WF_vars(WaitEnds)
    /\ WF_vars(\E update_check_results \in CheckResults : ResultReady(update_check_results))
    /\ WF_vars(ThreadFinished)

\* The application has been sent signal for check k.
Signalled(signal, k) ==
    \E i \in 1..Len(qt.signals) : qt.signals[i].signal = signal /\ qt.signals[i].check = k

\* C12: after the application has called CancelCheckForUpdates for a check
\* it started and whose result it has not received, CheckForUpdatesCancelled
\* is eventually emitted and CheckForUpdatesComplete is not emitted for that
\* check, however the cancel request interleaves with the worker.
CancelIsAnswered ==
    /\ \A k \in 1..MaxChecks :
          (k \in qt.cancelled) ~> Signalled("CheckForUpdatesCancelled", k)
    /\ [](\A k \in qt.cancelled : ~Signalled("CheckForUpdatesComplete", k))

\* C13: on a controller whose CancelCheckForUpdates is never called, every
\* StartCheckForUpdates is eventually answered by exactly one
\* CheckForUpdatesComplete that carries what the check returned (the parsed
\* model with was_check_successful true, or the error message with false);
\* so the controller can run another check after one has completed.
StartIsAnswered ==
    /\ \A k \in 1..MaxChecks :
          (qt.started >= k)
              ~> (qt.cancel_called \/ Signalled("CheckForUpdatesComplete", k))
    /\ [](~qt.cancel_called =>
            \A i \in 1..Len(qt.signals) :
               /\ qt.signals[i].signal = "CheckForUpdatesComplete"
               /\ qt.signals[i].check \in 1..qt.started
               /\ \A j \in 1..Len(qt.signals) : qt.signals[j].check = qt.signals[i].check => j = i
               /\ \E r \in 1..Len(qt.returned) :
                     /\ qt.returned[r].check = qt.signals[i].check
                     /\ qt.returned[r].results = qt.signals[i].results
               /\ IF qt.signals[i].results.was_check_successful
                  THEN qt.signals[i].results.update_info = "update_info"
                  ELSE qt.signals[i].results.error_message = "error_message")

\* One controller has completed two checks, the first with the parsed model
\* and the second with an error.
TwoChecksCompleted ==
    /\ ~qt.cancel_called
    /\ Len(qt.signals) = 2
    /\ qt.signals[1].signal = "CheckForUpdatesComplete" /\ qt.signals[1].check = 1
    /\ qt.signals[1].results.was_check_successful
    /\ qt.signals[2].signal = "CheckForUpdatesComplete" /\ qt.signals[2].check = 2
    /\ ~qt.signals[2].results.was_check_successful

\* C14: a cancel request issued while the helper of the running check is
\* executing reaches the wait loop: the flag ExecAndGrabOutput polls is true
\* from then on, so the wait ends at the next poll and the helper is
\* terminated.
CancelReachesWaitLoop ==
    (qt.thread # "none" /\ qt.worker = "ExecAndGrabOutput" /\ qt.cancelled_in_wait)
        => qt.cancel_signal

\* ------------------------------------------- two CheckForUpdates at once

\* Two application threads are each inside one CheckForUpdates call; checks[i]
\* is where call i is, and files is the temp directory both share.  A file
\* holds the name of the call whose helper wrote it and the URL the helper
\* fetched.
Callers == {1, 2}

OtherGitHubUrl ==
    <<"h", "t", "t", "p", "s", ":", "/", "/", "g", "/", "q">> \o kStringGithubReleasesLatest
MirrorUrl == <<"h", "t", "t", "p", ":", "/", "/", "k">>
OtherName == <<"n">> \o kStringJsonFileExtension

ConcurrentUrls == {GitHubUrl, OtherGitHubUrl, HttpUrl, MirrorUrl}
ConcurrentNames == {ManifestName, OtherName}

\* The browser_download_url the release answered from release_url gives for
\* the asset called json_file_name.
AssetUrlOf(release_url, json_file_name) ==
    Substr(release_url, 0, Find(release_url, kStringGithubReleasesLatest))
        \o <<"/", "a", "/">> \o json_file_name

NotCalled == [pc |-> "idle", json_filename |-> <<>>, remote_url |-> <<>>,
              local_file |-> <<>>, touched |-> {}, loaded |-> {}]

beside_checks == <<platform, ndebug, remote, temp_dir, pc, call, update_info,
                   error_message, ret, log, arg, res, qt, proc>>

InitConcurrent ==
    /\ platform = "kUnknown"
    /\ ndebug = TRUE
    /\ remote = <<>>
    /\ files = <<>>
    /\ temp_dir = TRUE
    /\ pc = "idle"
    /\ call = <<>>
    /\ update_info = UpdateInfo(FALSE, <<>>)
    /\ error_message = <<>>
    /\ ret = "none"
    /\ log = <<>>
    /\ arg = <<>>
    /\ res = NotApplied
    /\ qt = NoThread
    /\ proc = NoProcess
    /\ checks = [i \in Callers |-> NotCalled]

\* DownloadJsonFile of call i up to the launch of the helper: the local file
\* is named, removed, and given to the helper.
ConcurrentDownloadJsonFile(i, this, json_file_url) ==
    LET local_file == TempDirectory \o <<"/">> \o LocalFileName(json_file_url)
    IN /\ files' = Remove(files, local_file)
       /\ checks' = [checks EXCEPT ![i] =
                        [this EXCEPT !.pc = "DownloadJsonFile",
                                     !.remote_url = json_file_url,
                                     !.local_file = local_file,
                                     !.touched = @ \cup {local_file}]]

\* Call i enters CheckForUpdates and goes up to the launch of its first helper.
ConcurrentCheckForUpdates(i, latest_releases_url, json_filename) ==
    /\ checks[i].pc = "idle"
    /\ IF Find(latest_releases_url, kStringGithubReleasesLatest) # Npos
       THEN /\ checks' = [checks EXCEPT ![i] =
                            [@ EXCEPT !.pc = "LoadJsonFromLatestRelease",
                                      !.json_filename = json_filename,
                                      !.remote_url = latest_releases_url,
                                      !.local_file = LatestReleaseTempFile,
                                      !.touched = {LatestReleaseTempFile}]]
            /\ files' = files
       ELSE ConcurrentDownloadJsonFile(i, [checks[i] EXCEPT !.json_filename = json_filename],
                                       latest_releases_url \o <<"/">> \o json_filename)
    /\ UNCHANGED beside_checks

\* The helper of call i writes what it fetched into the local file, or fails
\* before it creates the file, and exits.
ConcurrentHelperExits(i, outcome) ==
    /\ checks[i].pc \in {"LoadJsonFromLatestRelease", "DownloadJsonFile"}
    /\ files' = IF outcome = "written"
                THEN Write(files, checks[i].local_file,
                           [by |-> i, url |-> checks[i].remote_url])
                ELSE files
    /\ checks' = [checks EXCEPT ![i].pc =
                     IF @ = "LoadJsonFromLatestRelease" THEN "FindAssetDownloadUrl"
                     ELSE "LoadJsonFile"]
    /\ UNCHANGED beside_checks

\* LoadJsonFromLatestRelease of call i after its helper: the temp file is
\* loaded, the asset is looked up in it, and DownloadJsonFile is entered.
ConcurrentLatestReleaseLoaded(i) ==
    /\ checks[i].pc = "FindAssetDownloadUrl"
    /\ IF checks[i].local_file \in DOMAIN files
       THEN LET latest_release_json == files[checks[i].local_file]
            IN ConcurrentDownloadJsonFile(
                   i, [checks[i] EXCEPT !.loaded = @ \cup {latest_release_json}],
                   AssetUrlOf(latest_release_json.url, checks[i].json_filename))
       ELSE /\ checks' = [checks EXCEPT ![i].pc = "returned"]
            /\ files' = files
    /\ UNCHANGED beside_checks

\* DownloadJsonFile of call i after its helper: LoadJsonFile reads the local
\* file; CheckForUpdates goes on to parse what was loaded.
ConcurrentManifestLoaded(i) ==
    /\ checks[i].pc = "LoadJsonFile"
    /\ checks' = [checks EXCEPT ![i] =
                     IF checks[i].local_file \in DOMAIN files
                     THEN [@ EXCEPT !.pc = "ParseJsonString",
                                    !.loaded = @ \cup {files[checks[i].local_file]}]
                     ELSE [@ EXCEPT !.pc = "returned"]]
    /\ files' = files
    /\ UNCHANGED beside_checks

\* Call i parses what it loaded and returns.
ConcurrentReturns(i) ==
    /\ checks[i].pc = "ParseJsonString"
    /\ checks' = [checks EXCEPT ![i].pc = "returned"]
    /\ files' = files
    /\ UNCHANGED beside_checks

NextConcurrent ==
    \/ \E i \in Callers, u \in ConcurrentUrls, n \in ConcurrentNames :
          ConcurrentCheckForUpdates(i, u, n)
    \/ \E i \in Callers, outcome \in {"untouched", "written"} : ConcurrentHelperExits(i, outcome)
    \/ \E i \in Callers : ConcurrentLatestReleaseLoaded(i)
    \/ \E i \in Callers : ConcurrentManifestLoaded(i)
    \/ \E i \in Callers : ConcurrentReturns(i)

SpecConcurrent == InitConcurrent /\ [][NextConcurrent]_vars

InsideCheck(i) == checks[i].pc \notin {"idle", "returned"}

\* C15: while two CheckForUpdates calls are both running, the temp file paths
\* one of them has written or read are none of the other's, and what a call
\* has loaded was written by its own helper; also when both use the GitHub
\* strategy or fetch URLs with the same last path segment.
ConcurrentChecksShareNoTempFile ==
    \A i, j \in Callers :
       (i # j /\ InsideCheck(i) /\ InsideCheck(j)) =>
          /\ checks[i].touched \cap checks[j].touched = {}
          /\ \A bytes \in checks[i].loaded : bytes.by = i

\* ------------------------------------------------ the GitHub "message" field

\* The GitHub strategy of the returned call has loaded the latest release
\* file, it parsed, and FindAssetDownloadUrl returned false on it.
NoAssetUrlObtained ==
    /\ Returned
    /\ Find(call.latest_releases_url, kStringGithubReleasesLatest) # Npos
    /\ Count(log, "LoadJsonFile") >= 1
    /\ LatestReleaseTempFile \in DOMAIN files
    /\ IsJson(files[LatestReleaseTempFile])
    /\ LET asset == FindAssetDownloadUrl(files[LatestReleaseTempFile].doc, call.json_filename)
       IN ~asset.ok /\ ~asset.thrown

\* The value of the top-level "message" field as text.
MessageText(latest_release_json_doc) ==
    LET message_element == At(latest_release_json_doc, "message")
    IN IF IsString(message_element) THEN message_element.s ELSE ToString(message_element.n)

MaxElements == 2

\* Elements of a Releases list: two that are valid, and valid ones with one
\* section taken out or made invalid.
ReleaseElements ==
    { GoodRelease, OldRelease,
      Without(GoodRelease, "ReleaseDate"),
      Without(OldRelease, "ReleaseTitle"),
      Without(GoodRelease, "InfoPageLinks"),
      Without(OldRelease, "DownloadLinks"),
      With(GoodRelease, "ReleaseType", JStr("Gamma")),
      With(OldRelease, "ReleasePlatforms", PlatformsJson(<<"Ubuntu", "Amiga">>)) }

InitReleases_1_6 ==
    /\ NoCall
    /\ arg \in [releases : SeqsUpTo(ReleaseElements, MaxElements) \ {<<>>},
                uninit : UninitValues]
    /\ res = NotApplied

ApplyReleases_1_6 ==
    /\ ~res.done
    /\ res' = [done |-> TRUE,
               parsed |-> ParseJsonSchema_1_6(Manifest_1_6(arg.releases), <<>>, arg.uninit)]
    /\ UNCHANGED <<arg, call_vars>>

SpecReleases_1_6 == InitReleases_1_6 /\ [][ApplyReleases_1_6]_vars

\* The ReleaseInfo a Releases element gives when it is the only one.
AloneReleaseInfo(release_json, uninit) ==
    ParseJsonSchema_1_6(Manifest_1_6(<<release_json>>), <<>>, uninit).out[1]

\* C22: the ReleaseInfo produced for an element of Releases, its
\* download_links included, depends only on that element: it is the
\* ReleaseInfo the element gives alone, whatever the other elements are.
ReleasesParsedIndependently ==
    res.done =>
       /\ Len(res.parsed.out) = Len(arg.releases)
       /\ \A i \in 1..Len(arg.releases) :
             res.parsed.out[i] = AloneReleaseInfo(arg.releases[i], arg.uninit)

\* ------------------------------------------------ ParseJsonSchema_1_5 applied

MaxLinks == 2

ValidLinks_1_5 ==
    { Link_1_5("u1", <<"Windows">>, "GA"),
      With(Link_1_5("u2", <<"Ubuntu", "Darwin">>, "Development"), "PackageType", JStr("Debian")) }

\* Download links with one flaw each.
FlawedLinks_1_5 ==
    { Without(Link_1_5("u1", <<"Windows">>, "GA"), "URL"),
      Without(Link_1_5("u1", <<"Windows">>, "GA"), "TargetPlatforms"),
      Without(Link_1_5("u1", <<"Windows">>, "GA"), "PackageType"),
      Without(Link_1_5("u1", <<"Windows">>, "GA"), "ReleaseType"),
      Link_1_5("u1", <<>>, "GA"),
      Link_1_5("u1", <<"Ubuntu", "Amiga">>, "GA"),
      Link_1_5("u1", <<"windows", "RHEL">>, "GA"),
      With(Link_1_5("u1", <<"Windows">>, "GA"), "PackageType", JStr("EXE")),
      Link_1_5("u1", <<"Windows">>, "Gamma") }

InitLinks_1_5 ==
    /\ NoCall
    /\ arg \in [links : SeqsUpTo(ValidLinks_1_5 \cup FlawedLinks_1_5, MaxLinks) \ {<<>>},
                uninit : UninitValues]
    /\ res = NotApplied

\* ParseJsonSchema_1_5 on a document with the links, and ParseJsonString on
\* the same document with an empty update_info.
ApplyLinks_1_5 ==
    /\ ~res.done
    /\ res' = [done |-> TRUE,
               schema |-> ParseJsonSchema_1_5(Manifest_1_5(VersionJson(1, 1, 0, 0), arg.links),
                                              arg.uninit),
               parsed |-> ParseJsonString(
                              JsonText(Manifest_1_5(VersionJson(1, 1, 0, 0), arg.links)),
                              <<>>, arg.uninit)]
    /\ UNCHANGED <<arg, call_vars>>

SpecLinks_1_5 == InitLinks_1_5 /\ [][ApplyLinks_1_5]_vars

PlatformTokens == {"Windows", "Ubuntu", "RHEL", "Darwin"}
PackageTypeTokens == {"ZIP", "MSI", "TAR", "RPM", "Debian"}
ReleaseTypeTokens == {"GA", "Beta", "Alpha", "Patch", "Development"}

\* The link lacks a sub-field, has no platform, or holds a token outside the
\* three lists.
FlawedLink(link) ==
    \/ \E key \in {"URL", "TargetPlatforms", "PackageType", "ReleaseType"} : ~Has(link, key)
    \/ Len(At(link, "TargetPlatforms").a) = 0
    \/ \E i \in 1..Len(At(link, "TargetPlatforms").a) :
          At(link, "TargetPlatforms").a[i].s \notin PlatformTokens
    \/ At(link, "PackageType").s \notin PackageTypeTokens
    \/ At(link, "ReleaseType").s \notin ReleaseTypeTokens

\* C23: a 1.5 manifest in which any download link lacks URL, TargetPlatforms,
\* PackageType or ReleaseType, has an empty TargetPlatforms list, or holds one
\* unrecognized platform, package-type or release-type token is rejected as a
\* whole: ParseJsonSchema_1_5 returns false and no release is produced, even
\* if the other links are valid.
FlawedLinkRejectsManifest_1_5 ==
    (res.done /\ \E i \in 1..Len(arg.links) : FlawedLink(arg.links[i])) =>
        /\ ~res.schema.thrown
        /\ ~res.schema.ok
        /\ ~res.parsed.is_parsed
        /\ res.parsed.releases = <<>>

\* A document whose first link is valid and whose second link holds an
\* unknown platform after a known one has been rejected.
FlawedAfterValidRejected ==
    /\ res.done
    /\ Len(arg.links) = 2
    /\ ~FlawedLink(arg.links[1])
    /\ arg.links[2] = Link_1_5("u1", <<"Ubuntu", "Amiga">>, "GA")
    /\ ~res.schema.ok

\* --------------------------------------------- the tags of the 1.5 upgrade

\* C24: every ReleaseInfo the 1.5 to 1.6 upgrade synthesizes has as tags the
\* strings of its target platforms in list order followed by the string of
\* its release type (one tag more than platforms), and carries the version,
\* date, description (as title) and info links of the 1.5 document.
UpgradeSeedsTags ==
    res.done =>
        \A i \in 1..Len(res.releases) :
           LET release == res.releases[i]
               n == Len(release.target_platforms)
           IN /\ Len(release.tags) = n + 1
              /\ \A k \in 1..n :
                    release.tags[k] = TargetPlatformToString(release.target_platforms[k])
              /\ release.tags[n + 1] = ReleaseTypeToString(release.type)
              /\ release.version = arg.release_version
              /\ release.date = arg.release_date
              /\ release.title = arg.release_description
              /\ release.info_links = arg.info_links

\* The upgrade has made a release for Ubuntu and Windows of type Beta.
UpgradeTaggedTwoPlatforms ==
    /\ res.done
    /\ Len(res.releases) >= 2
    /\ res.releases[2].target_platforms = <<"kUbuntu", "kWindows">>
    /\ res.releases[2].tags = <<"Ubuntu", "Windows", "Beta">>
    /\ res.releases[2].title = "notes"

\* ------------------------------------------------------- ExecAndGrabOutput

\* One call of ExecAndGrabOutput, in the POSIX and in the Windows
\* implementation, with the child it launches and a caller that may set the
\* flag behind cancel_signal while the call waits.  proc.child is "running",
\* "exited" (ended, not yet waited for), "reaped" or "killed".

\* How often WaitForSingleObject may time out on the closed handle.
MaxPolls == 2

kSleepIntervalMilliseconds == 100
SingleWaitMilliseconds == 50

beside_proc == <<platform, ndebug, remote, files, temp_dir, pc, call, update_info,
                 error_message, ret, log, arg, res, qt, checks>>

InitExec ==
    /\ platform = "kUnknown"
    /\ ndebug = TRUE
    /\ remote = <<>>
    /\ files = <<>>
    /\ temp_dir = TRUE
    /\ pc = "idle"
    /\ call = <<>>
    /\ update_info = UpdateInfo(FALSE, <<>>)
    /\ error_message = <<>>
    /\ ret = "none"
    /\ log = <<>>
    /\ arg = <<>>
    /\ res = NotApplied
    /\ qt = NoThread
    /\ checks = NoChecks
    /\ \E os \in {"posix", "win32"}, cmd \in {"nullptr", "cmd"}, launches \in BOOLEAN,
          has_temp_dir \in BOOLEAN :
          proc = [os |-> os, cmd |-> cmd, launches |-> launches,
                  has_temp_dir |-> has_temp_dir \/ os = "posix",
                  pc |-> "called", cancel_signal |-> FALSE, child |-> "none",
                  handles |-> "none",
                  accumulated |-> 0,        \* accumulated_wait_time, in milliseconds
                  sleeps |-> 0,             \* nanosleep calls of this WaitForProcessToTerminate
                  polls |-> 0,              \* loop tests since cancel_signal is true
                  cancelled_running |-> FALSE,  \* the flag was set while the child ran
                  exited_at_poll |-> FALSE, \* the child had exited when the loop last tested
                  stale_kill |-> FALSE,     \* SIGKILL went to a pid already waited for
                  cmd_output |-> "",
                  ret |-> "none"]

\* ExecAndGrabOutput up to the wait loop.
ExecLaunch ==
    /\ proc.pc = "called"
    /\ proc' = IF proc.cmd = "nullptr" \/ ~proc.has_temp_dir \/ ~proc.launches
               THEN [proc EXCEPT !.pc = "returned", !.ret = "false",
                                 !.cmd_output =
                                    IF proc.os = "posix" \/ proc.cmd = "nullptr" THEN ""
                                    ELSE IF ~proc.has_temp_dir
                                    THEN "kStringErrorUnableToFindTempDirectory"
                                    ELSE "kStringErrorFailedToLaunchCommand"]
               ELSE [proc EXCEPT !.pc = "wait", !.child = "running",
                                 !.handles = IF proc.os = "win32" THEN "open" ELSE "none"]
    /\ UNCHANGED beside_proc

\* The caller's thread sets the flag.
ExecCancel ==
    /\ proc.pc \in {"wait", "WaitForProcessToTerminate", "after"}
    /\ ~proc.cancel_signal
    /\ proc' = [proc EXCEPT !.cancel_signal = TRUE,
                            !.cancelled_running = proc.child = "running" /\ proc.pc # "after"]
    /\ UNCHANGED beside_proc

\* The launched command ends.
ExecChildExits ==
    /\ proc.child = "running"
    /\ proc' = [proc EXCEPT !.child = "exited"]
    /\ UNCHANGED beside_proc

\* POSIX: the test of the wait loop, up to the call of WaitForProcessToTerminate.
PosixPoll ==
    /\ proc.os = "posix" /\ proc.pc = "wait"
    /\ proc' = [proc EXCEPT !.pc = IF proc.cancel_signal THEN "after"
                                   ELSE "WaitForProcessToTerminate",
                            !.accumulated = 0,
                            !.sleeps = 0,
                            !.exited_at_poll = proc.child # "running",
                            !.polls = IF proc.cancel_signal THEN @ + 1 ELSE @]
    /\ UNCHANGED beside_proc

\* The pass of the loop with the result of waitpid read the wrong way round.
PosixSleepMissesExit ==
    /\ proc.os = "posix" /\ proc.pc = "WaitForProcessToTerminate"
    /\ LET the_process_exited == proc.child = "running"
           accumulated == proc.accumulated + SingleWaitMilliseconds
       IN proc' = [proc EXCEPT
                      !.child = IF proc.child = "exited" THEN "reaped" ELSE @,
                      !.accumulated = accumulated,
                      !.sleeps = @ + 1,
                      !.pc = IF the_process_exited THEN "after"
                             ELSE IF accumulated < kSleepIntervalMilliseconds THEN @
                             ELSE "wait"]
    /\ UNCHANGED beside_proc

\* POSIX: one pass of the loop of WaitForProcessToTerminate (nanosleep, then
\* waitpid with WNOHANG), and its return when the loop ends.
PosixSleep ==
    /\ proc.os = "posix" /\ proc.pc = "WaitForProcessToTerminate"
    /\ LET the_process_exited == proc.child # "running"
           accumulated == proc.accumulated + SingleWaitMilliseconds
       IN proc' = [proc EXCEPT
                      !.child = IF proc.child = "exited" THEN "reaped" ELSE @,
                      !.accumulated = accumulated,
                      !.sleeps = @ + 1,
                      !.pc = IF the_process_exited THEN "after"
                             ELSE IF accumulated < kSleepIntervalMilliseconds THEN @
                             ELSE "wait"]
    /\ UNCHANGED beside_proc

\* POSIX: after the loop.  TerminateProcess(pid, 0) sends SIGKILL and waits;
\* without the flag the pipe is read, was_read saying that read() succeeded.
PosixAfter(was_read) ==
    /\ proc.os = "posix" /\ proc.pc = "after"
    /\ proc.cancel_signal => was_read
    /\ proc' = [proc EXCEPT
                   !.pc = "returned",
                   !.ret = "true",
                   !.cmd_output = IF proc.cancel_signal THEN ""
                                  ELSE IF was_read THEN "temp_buffer"
                                  ELSE "kStringErrorFailedToReadOutput",
                   !.child = IF ~proc.cancel_signal THEN @
                             ELSE IF @ = "running" THEN "killed"
                             ELSE IF @ = "exited" THEN "reaped"
                             ELSE @,
                   !.stale_kill = proc.cancel_signal /\ proc.child = "reaped"]
    /\ UNCHANGED beside_proc

\* Windows: WaitForSingleObject and the body of the loop.  On the handle the
\* body has closed the wait has no defined result.
WinPoll(wait) ==
    /\ proc.os = "win32" /\ proc.pc = "wait"
    /\ IF proc.handles = "open"
       THEN wait = IF proc.child = "running" THEN "WAIT_TIMEOUT" ELSE "WAIT_OBJECT_0"
       ELSE wait = "WAIT_TIMEOUT" => proc.polls < MaxPolls
    /\ proc' = [proc EXCEPT
                   !.pc = IF wait = "WAIT_TIMEOUT" THEN @ ELSE "after",
                   !.handles = IF wait = "WAIT_TIMEOUT" /\ proc.cancel_signal
                               THEN "closed" ELSE @,
                   !.exited_at_poll = proc.child # "running",
                   !.polls = IF proc.cancel_signal THEN @ + 1 ELSE @]
    /\ UNCHANGED beside_proc

\* Windows: after the loop the handles are closed unless the flag is set, the
\* temp file is read, when it exists and opens, and deleted.
WinAfter(was_read) ==
    /\ proc.os = "win32" /\ proc.pc = "after"
    /\ proc' = [proc EXCEPT !.pc = "returned",
                            !.ret = "true",
                            !.cmd_output = IF was_read THEN "temp_cmd_output" ELSE "",
                            !.handles = IF ~proc.cancel_signal THEN "closed" ELSE @]
    /\ UNCHANGED beside_proc

NextExec ==
    \/ ExecLaunch
    \/ ExecCancel
    \/ ExecChildExits
    \/ PosixPoll
    \/ PosixSleep
    \/ \E was_read \in BOOLEAN : PosixAfter(was_read)
    \/ \E wait \in {"WAIT_OBJECT_0", "WAIT_TIMEOUT", "WAIT_FAILED"} : WinPoll(wait)
    \/ \E was_read \in BOOLEAN : WinAfter(was_read)

SpecExec == InitExec /\ [][NextExec]_vars

\* The thread inside ExecAndGrabOutput keeps running, and the launched
\* command ends (the hypothesis of C30); nothing makes the caller set the flag.
LiveExec ==
    /\ SpecExec
    /\ WF_vars(ExecLaunch)
    /\ WF_vars(ExecChildExits)
    /\ WF_vars(PosixPoll)
    /\ WF_vars(PosixSleep)
    /\ WF_vars(\E was_read \in BOOLEAN : PosixAfter(was_read))
    /\ WF_vars(\E wait \in {"WAIT_OBJECT_0", "WAIT_TIMEOUT", "WAIT_FAILED"} : WinPoll(wait))
    /\ WF_vars(\E was_read \in BOOLEAN : WinAfter(was_read))

\* C25: when the flag behind cancel_signal becomes true while the launched
\* command is running, ExecAndGrabOutput leaves the wait loop at the next
\* poll, the child is forcefully terminated and the function returns: when
\* it has returned, the command is not running any more.  POSIX and Windows.
CancelTerminatesChild ==
    (proc.pc = "returned" /\ proc.cancelled_running) => proc.child # "running"

\* C30: with the flag never set (ExecDownloader passes a local that stays
\* false), a call of ExecAndGrabOutput whose command eventually exits
\* returns; a test of the wait loop made after the child has exited is the
\* last one; and one WaitForProcessToTerminate call with the 100 ms timeout
\* sleeps at most twice.
WaitLoopTerminates ==
    /\ (proc.pc = "called") ~> (proc.pc = "returned" \/ proc.cancel_signal)
    /\ []((proc.exited_at_poll /\ ~proc.cancel_signal) => proc.pc # "wait")
    /\ [](proc.sleeps * SingleWaitMilliseconds <= kSleepIntervalMilliseconds)

\* The POSIX call has returned after its child exited during the second
\* sleep of a WaitForProcessToTerminate call.
ReturnedAfterSecondSleep ==
    /\ proc.os = "posix"
    /\ proc.pc = "returned"
    /\ ~proc.cancel_signal
    /\ proc.child = "reaped"
    /\ proc.sleeps = 2

\* ------------------------------------------------------- Worker::Worker

\* The two Workers: update_check_thread.cpp and the legacy UpdateCheckThread.cpp.
WorkerSources == {"update_check_thread.cpp", "UpdateCheckThread.cpp"}

InitWorker ==
    /\ NoCall
    /\ arg \in [source : WorkerSources,
                current_major_version : 0..MaxVer,
                current_minor_version : 0..MaxVer,
                current_build_version : 0..MaxVer,
                current_patch_version : 0..MaxVer]
    /\ res = NotApplied

\* Worker::Worker of update_check_thread.cpp, then DoCheckForUpdates handing
\* version_info_ to CheckForUpdates.  A braced list fills major, minor, patch
\* and build in that order.
Worker ==
    /\ ~res.done
    /\ arg.source = "update_check_thread.cpp"
    /\ res' = [done |-> TRUE,
               version_info_ |-> VersionInfo(arg.current_major_version,
                                             arg.current_minor_version,
                                             arg.current_patch_version,
                                             arg.current_build_version)]
    /\ UNCHANGED <<arg, call_vars>>

\* Worker::Worker of UpdateCheckThread.cpp, with m_rgaVersionInfo.
LegacyWorker ==
    /\ ~res.done
    /\ arg.source = "UpdateCheckThread.cpp"
    /\ res' = [done |-> TRUE,
               version_info_ |-> VersionInfo(arg.current_major_version,
                                             arg.current_minor_version,
                                             arg.current_build_version,
                                             arg.current_patch_version)]
    /\ UNCHANGED <<arg, call_vars>>

NextWorker ==
    \/ Worker
    \/ LegacyWorker

SpecWorker == InitWorker /\ [][NextWorker]_vars

\* C26: the version a Worker passes to CheckForUpdates has major, minor, patch
\* and build equal to the constructor arguments of those names, in the
\* current and in the legacy Worker.
WorkerKeepsVersionParts ==
    res.done =>
        /\ res.version_info_.major = arg.current_major_version
        /\ res.version_info_.minor = arg.current_minor_version
        /\ res.version_info_.patch = arg.current_patch_version
        /\ res.version_info_.build = arg.current_build_version

\* ----------------------------- a caller that keeps its UpdateInfo and string

\* How many times the caller checks with the same UpdateInfo and the same
\* error_message string.
MaxRepeats == 2

\* What the manifest file in the caller's directory may hold at a check.
RepeatTexts ==
    { JsonText(doc) :
        doc \in Good_1_5 \cup Good_1_3
                \cup { Manifest_1_6(<<OldRelease>>),
                       Manifest_1_6(<<GoodRelease>>),
                       Manifest_1_6(<<Without(GoodRelease, "DownloadLinks")>>),
                       With(Manifest_1_6(<<GoodRelease>>), "SchemaVersion", JStr("1.7")) } }
    \cup {EmptyText, GarbageText}

\* CheckForUpdates for a manifest in a directory of the disk: info and said
\* are what the caller's update_info and error_message hold at the call.  The
\* function resets is_update_available, and nothing else of update_info,
\* before the transport.
CheckForUpdatesInDirectory(product_version, fs, info, said, tool_version, uninit, current_platform) ==
    LET local == LoadJsonFile(LocalManifestFile, fs)
        done == FilterParsed(ParseJsonString(local.json_string, info.releases, uninit),
                             product_version, tool_version, uninit, current_platform)
    IN IF ~local.is_loaded
       THEN [ret |-> FALSE,
             update_info |-> UpdateInfo(FALSE, info.releases),
             error_message |-> said \o local.err]
       ELSE [ret |-> done.checked_for_update,
             update_info |-> done.update_info,
             error_message |-> said \o done.err]

\* The caller's objects before its first check.
CallerInfo == IF res.done THEN res.update_info ELSE UpdateInfo(FALSE, <<>>)
CallerMessage == IF res.done THEN res.error_message ELSE <<>>
CallerChecks == IF res.done THEN res.calls ELSE 0

InitRepeat ==
    /\ NoCall
    /\ arg \in [product_version : ProductVersions,
                current_platform : {"kWindows", "kUbuntu"}]
    /\ res = NotApplied

\* What one check leaves: again is the check on the caller's objects, fresh
\* the same check on an UpdateInfo and a string just constructed.
Checked(again, fresh, before, calls) ==
    [done |-> TRUE, calls |-> calls,
     ret |-> again.ret, update_info |-> again.update_info,
     error_message |-> again.error_message,
     before |-> before,
     fresh |-> [ret |-> fresh.ret, update_info |-> fresh.update_info]]

\* The caller checks, with the objects its earlier checks have filled.
CheckAgain(text, tool_version, uninit) ==
    /\ CallerChecks < MaxRepeats
    /\ res' = Checked(CheckForUpdatesInDirectory(arg.product_version,
                          [q \in {LocalManifestFile} |-> text], CallerInfo, CallerMessage,
                          tool_version, uninit, arg.current_platform),
                      CheckForUpdatesInDirectory(arg.product_version,
                          [q \in {LocalManifestFile} |-> text], UpdateInfo(FALSE, <<>>), <<>>,
                          tool_version, uninit, arg.current_platform),
                      CallerMessage, CallerChecks + 1)
    /\ UNCHANGED <<arg, call_vars>>

\* The caller checks when the directory holds no manifest.
CheckAgainWithoutFile(tool_version, uninit) ==
    /\ CallerChecks < MaxRepeats
    /\ res' = Checked(CheckForUpdatesInDirectory(arg.product_version,
                          [q \in {} |-> EmptyText], CallerInfo, CallerMessage,
                          tool_version, uninit, arg.current_platform),
                      CheckForUpdatesInDirectory(arg.product_version,
                          [q \in {} |-> EmptyText], UpdateInfo(FALSE, <<>>), <<>>,
                          tool_version, uninit, arg.current_platform),
                      CallerMessage, CallerChecks + 1)
    /\ UNCHANGED <<arg, call_vars>>

NextRepeat ==
    \/ \E text \in RepeatTexts, uninit \in UninitValues :
          CheckAgain(text, Unset, uninit)
    \/ \E uninit \in UninitValues : CheckAgainWithoutFile(Unset, uninit)

SpecRepeat == InitRepeat /\ [][NextRepeat]_vars

\* C27: the return value, is_update_available and the releases list of a check
\* do not depend on what update_info.releases held before the call: a check on
\* an UpdateInfo populated by a previous check gives what the same check gives
\* on a fresh UpdateInfo.
CheckIgnoresEarlierReleases ==
    res.done =>
        /\ res.ret = res.fresh.ret
        /\ res.update_info = res.fresh.update_info

Range(s) == { s[i] : i \in 1..Len(s) }

\* A release a product can offer: it names a platform, a download and an info
\* page, and none of its enumerations is Unknown.
ConsistentRelease(release) ==
    /\ release.target_platforms # <<>>
    /\ release.download_links # <<>>
    /\ release.info_links # <<>>
    /\ release.type # "kUnknown"
    /\ "kUnknown" \notin Range(release.target_platforms)
    /\ \A link \in Range(release.download_links) : link.package_type # "kUnknown"

\* C29: whenever CheckForUpdates returns true starting from an empty
\* UpdateInfo, every release in update_info.releases has at least one target
\* platform, one download link and one info link, and no release type, target
\* platform or package type is Unknown, whichever schema the manifest used.
TrueReturnIsConsistent ==
    (Returned /\ ret = "true") =>
        \A release \in Range(update_info.releases) : ConsistentRelease(release)

\* A true return with releases from a manifest of the given schema.
ReturnedReleasesOf(schema_parser) ==
    /\ Returned
    /\ ret = "true"
    /\ update_info.releases # <<>>
    /\ \E i \in 1..Len(log) : log[i] = schema_parser

\* The three schemas have each led to a true return with releases.
ConsistentFrom_1_6 == ReturnedReleasesOf("ParseJsonSchema_1_6")
ConsistentFrom_1_5 == ReturnedReleasesOf("ParseJsonSchema_1_5")
ConsistentFrom_1_3 == ReturnedReleasesOf("ParseJsonSchema_1_3")

====
